---- MODULE Spec2Model ----
(***************************************************************************)
(* Model of the immo_bot orchestration core: the Scheduler's run loop      *)
(* (Start / Stop / run), one poll cycle (poll, processProfile,             *)
(* sendNotifications, sendContacts, sendTestPreviews), the SQLite          *)
(* repository operations the cycle uses, the filter engine and the         *)
(* Telegram BotController's contact mode.                                  *)
(*                                                                         *)
(* Three specifications share the variables:                               *)
(*   SpecLoop  the goroutines of Scheduler.Start/Stop/run for any callers, *)
(*             with a poll cycle reduced to its begin, steps and end;      *)
(*   SpecMain  the same goroutines when Start is called once, as main      *)
(*             does;                                                       *)
(*   Spec      the contents of poll cycles executed one after another by   *)
(*             one worker, interleaved with BotController.SetContactMode.  *)
(***************************************************************************)
EXTENDS Integers, Sequences, FiniteSets, TLC

\* ---------------------------------------------------------------- bounds
\* Number of run goroutines Start may spawn in one behaviour.
MaxLoops == 2
\* Number of Stop() calls in one behaviour.
MaxStoppers == 2
\* Number of observable steps inside one poll cycle of the loop model.
PollSteps == 2

\* Number of poll cycles one behaviour of Spec begins.
MaxCycles == 2
MaxCallers == 2
MaxCalls == 3
MaxClock == 5

\* -------------------------------------------------------------- strings
\* A Go string is a sequence of one-character strings.
UpperChars == <<"A","B","C","D","E","F","G","H","I","J","K","L","M","N","O",
                "P","Q","R","S","T","U","V","W","X","Y","Z">>
LowerChars == <<"a","b","c","d","e","f","g","h","i","j","k","l","m","n","o",
                "p","q","r","s","t","u","v","w","x","y","z">>

ToLowerChar(c) ==
    IF \E i \in DOMAIN UpperChars : UpperChars[i] = c
    THEN LowerChars[CHOOSE i \in DOMAIN UpperChars : UpperChars[i] = c]
    ELSE c

\* strings.ToLower
ToLower(s) == [i \in 1..Len(s) |-> ToLowerChar(s[i])]

\* strings.EqualFold
EqualFold(a, b) == ToLower(a) = ToLower(b)

\* strings.Contains
Contains(s, sub) ==
    \E i \in 0..(Len(s) - Len(sub)) : SubSeq(s, i + 1, i + Len(sub)) = sub

\* A comparison that accepts equal strings only.
HasPrefixExact(s, prefix) == s = prefix

\* strings.HasPrefix
HasPrefix(s, prefix) ==
    Len(prefix) <= Len(s) /\ SubSeq(s, 1, Len(prefix)) = prefix

Berlin == <<"B","e","r","l","i","n">>
BerlinUpper == <<"B","E","R","L","I","N">>
Bonn == <<"B","o","n","n">>
Mitte == <<"M","i","t","t","e">>
BerlinMitte == <<"B","e","r","l","i","n","-","m","i","t","t","e">>
Wedding == <<"W","e","d","d","i","n","g">>
Flat == <<"F","l","a","t">>

\* --------------------------------------------------------------- filter
\* A matcher's result: the empty reason "" passes.  arg carries the keyword
\* of "excluded_keyword:" + keyword.  float64 room counts are compared as
\* integers.
NoReason == [code |-> "", arg |-> <<>>]
Reason(c) == [code |-> c, arg |-> <<>>]

\* A matcher whose maximum is exclusive.
PriceMatchBelowMax(l, p) ==
    IF l.Price = 0 THEN NoReason
    ELSE IF p.MinPrice > 0 /\ l.Price < p.MinPrice THEN Reason("price_too_low")
    ELSE IF p.MaxPrice > 0 /\ l.Price >= p.MaxPrice THEN Reason("price_too_high")
    ELSE NoReason

\* A matcher that takes an unset bound for the bound 0.
PriceMatchZeroBound(l, p) ==
    IF l.Price = 0 THEN NoReason
    ELSE IF l.Price < p.MinPrice THEN Reason("price_too_low")
    ELSE IF l.Price > p.MaxPrice THEN Reason("price_too_high")
    ELSE NoReason

\* PriceMatcher.Match
PriceMatch(l, p) ==
    IF l.Price = 0 THEN NoReason
    ELSE IF p.MinPrice > 0 /\ l.Price < p.MinPrice THEN Reason("price_too_low")
    ELSE IF p.MaxPrice > 0 /\ l.Price > p.MaxPrice THEN Reason("price_too_high")
    ELSE NoReason

\* A matcher that compares a missing room count with the bounds.
RoomsMatchStrict(l, p) ==
    IF p.MinRooms > 0 /\ l.Rooms < p.MinRooms THEN Reason("too_few_rooms")
    ELSE IF p.MaxRooms > 0 /\ l.Rooms > p.MaxRooms THEN Reason("too_many_rooms")
    ELSE NoReason

\* RoomsMatcher.Match
RoomsMatch(l, p) ==
    IF l.Rooms = 0 THEN NoReason
    ELSE IF p.MinRooms > 0 /\ l.Rooms < p.MinRooms THEN Reason("too_few_rooms")
    ELSE IF p.MaxRooms > 0 /\ l.Rooms > p.MaxRooms THEN Reason("too_many_rooms")
    ELSE NoReason

AreaMatch(l, p) ==
    IF l.Area = 0 THEN NoReason
    ELSE IF p.MinArea > 0 /\ l.Area < p.MinArea THEN Reason("area_too_small")
    ELSE IF p.MaxArea > 0 /\ l.Area > p.MaxArea THEN Reason("area_too_large")
    ELSE NoReason

\* A matcher whose districts must equal the listing's district.
LocationMatchDistrictEqual(l, p) ==
    IF p.City # <<>> /\ l.City # <<>> /\ ~EqualFold(l.City, p.City)
    THEN Reason("wrong_city")
    ELSE IF /\ Len(p.Districts) > 0
            /\ l.District # <<>>
            /\ ~\E i \in DOMAIN p.Districts :
                   EqualFold(l.District, p.Districts[i])
    THEN Reason("wrong_district")
    ELSE IF /\ Len(p.PostalCodes) > 0
            /\ l.PostalCode # <<>>
            /\ ~\E i \in DOMAIN p.PostalCodes :
                   \/ l.PostalCode = p.PostalCodes[i]
                   \/ HasPrefix(l.PostalCode, p.PostalCodes[i])
    THEN Reason("wrong_postal_code")
    ELSE NoReason

\* LocationMatcher.Match: city, then districts, then postal codes; the
\* first violation is the reason.
LocationMatch(l, p) ==
    IF p.City # <<>> /\ l.City # <<>> /\ ~EqualFold(l.City, p.City)
    THEN Reason("wrong_city")
    ELSE IF /\ Len(p.Districts) > 0
            /\ l.District # <<>>
            /\ ~\E i \in DOMAIN p.Districts :
                   \/ EqualFold(l.District, p.Districts[i])
                   \/ Contains(ToLower(l.District), ToLower(p.Districts[i]))
    THEN Reason("wrong_district")
    ELSE IF /\ Len(p.PostalCodes) > 0
            /\ l.PostalCode # <<>>
            /\ ~\E i \in DOMAIN p.PostalCodes :
                   \/ l.PostalCode = p.PostalCodes[i]
                   \/ HasPrefix(l.PostalCode, p.PostalCodes[i])
    THEN Reason("wrong_postal_code")
    ELSE NoReason

\* A matcher for which an amenity set to false forbids the amenity.
AmenitiesMatchBothWays(l, p) ==
    IF p.HasBalcony # "nil" /\ (p.HasBalcony = "true") # l.HasBalcony
    THEN Reason("no_balcony")
    ELSE IF p.HasEBK # "nil" /\ (p.HasEBK = "true") # l.HasEBK
    THEN Reason("no_ebk")
    ELSE IF p.HasElevator # "nil" /\ (p.HasElevator = "true") # l.HasElevator
    THEN Reason("no_elevator")
    ELSE IF p.PetsAllowed # "nil" /\ l.PetsAllowed # p.PetsAllowed
    THEN Reason("no_pets")
    ELSE NoReason

\* Profile amenities and the listing's PetsAllowed are *bool: "nil", "true"
\* or "false".  The listing's other amenities are bool.
AmenitiesMatch(l, p) ==
    IF p.HasBalcony = "true" /\ ~l.HasBalcony THEN Reason("no_balcony")
    ELSE IF p.HasEBK = "true" /\ ~l.HasEBK THEN Reason("no_ebk")
    ELSE IF p.HasElevator = "true" /\ ~l.HasElevator THEN Reason("no_elevator")
    ELSE IF p.PetsAllowed = "true" /\ l.PetsAllowed = "false" THEN Reason("no_pets")
    ELSE NoReason

BuildYearMatch(l, p) ==
    IF l.BuildYear = 0 THEN NoReason
    ELSE IF p.MinBuildYear > 0 /\ l.BuildYear < p.MinBuildYear
    THEN Reason("building_too_old")
    ELSE IF p.MaxBuildYear > 0 /\ l.BuildYear > p.MaxBuildYear
    THEN Reason("building_too_new")
    ELSE NoReason

\* A matcher that reports the last matching keyword of the list.
KeywordExclusionMatchLast(l, p) ==
    LET text == ToLower(l.Title \o <<" ">> \o l.Description)
        hits == {i \in DOMAIN p.ExcludeKeywords :
                    Contains(text, ToLower(p.ExcludeKeywords[i]))}
    IN  IF hits = {} THEN NoReason
        ELSE LET last == CHOOSE i \in hits : \A j \in hits : i >= j
             IN  [code |-> "excluded_keyword:", arg |-> p.ExcludeKeywords[last]]

\* KeywordExclusionMatcher.Match: the first keyword of the list that the
\* lower-cased title, a space and the description contain.
KeywordExclusionMatch(l, p) ==
    LET text == ToLower(l.Title \o <<" ">> \o l.Description)
        hits == {i \in DOMAIN p.ExcludeKeywords :
                    Contains(text, ToLower(p.ExcludeKeywords[i]))}
    IN  IF hits = {} THEN NoReason
        ELSE LET first == CHOOSE i \in hits : \A j \in hits : i <= j
             IN  [code |-> "excluded_keyword:", arg |-> p.ExcludeKeywords[first]]

\* Engine.Filter: every matcher runs, the non-empty reasons are collected in
\* matcher order.
Filter(l, p) ==
    LET all == <<PriceMatch(l, p), RoomsMatch(l, p), AreaMatch(l, p),
                 LocationMatch(l, p), AmenitiesMatch(l, p),
                 BuildYearMatch(l, p), KeywordExclusionMatch(l, p)>>
        reasons == SelectSeq(all, LAMBDA r : r.code # "")
    IN  [Passed |-> reasons = <<>>, Reasons |-> reasons]

\* --------------------------------------------------------------- domain
\* The external identifiers (is24_id) the source can return.
Ids == {1, 2}

\* A SearchProfile with every criterion unset.
EmptyProfile ==
    [ID |-> 0, City |-> <<>>, Districts |-> <<>>, PostalCodes |-> <<>>,
     MinPrice |-> 0, MaxPrice |-> 0, MinRooms |-> 0, MaxRooms |-> 0,
     MinArea |-> 0, MaxArea |-> 0, HasBalcony |-> "nil", HasEBK |-> "nil",
     HasElevator |-> "nil", PetsAllowed |-> "nil", MinBuildYear |-> 0,
     MaxBuildYear |-> 0, ExcludeKeywords |-> <<>>, Active |-> TRUE]

\* The rows of search_profiles: two active profiles on the same city with
\* different price limits, and one inactive profile.
SearchProfiles ==
    << [EmptyProfile EXCEPT !.ID = 1, !.City = Berlin, !.MaxPrice = 1500,
                            !.MinRooms = 2],
       [EmptyProfile EXCEPT !.ID = 2, !.City = Berlin, !.MaxPrice = 2000],
       [EmptyProfile EXCEPT !.ID = 3, !.City = Berlin, !.Active = FALSE] >>

\* A Listing as the parser builds it: the zero value with the parsed fields.
\* ID, Contacted and Notified are set by the repository.
ParsedListing(id, price) ==
    [ID |-> 0, IS24ID |-> id, Title |-> Flat, Description |-> <<>>,
     City |-> Berlin, District |-> <<>>, PostalCode |-> <<>>,
     Price |-> price, Rooms |-> 2, Area |-> 0, HasBalcony |-> FALSE,
     HasEBK |-> FALSE, HasElevator |-> FALSE, PetsAllowed |-> "nil",
     BuildYear |-> 0, SearchProfileID |-> 0, Contacted |-> FALSE,
     Notified |-> FALSE]

\* Prices a search-result entry may carry (0: the result page shows none)
\* and prices the expose page may carry.
SearchPrices == {0, 1600}
ExposePrices == {1600}

\* ----------------------------------------------------------- repository
\* ListingExists: SELECT 1 FROM listings WHERE is24_id = ?
ListingExists(st, is24ID) == \E i \in DOMAIN st : st[i].IS24ID = is24ID

\* An INSERT without OR IGNORE and without the UNIQUE constraint.
CreateListingAlways(st, l) ==
    Append(st, [l EXCEPT !.ID = Len(st) + 1, !.Contacted = FALSE,
                         !.Notified = FALSE])

\* CreateListing: INSERT OR IGNORE; is24_id is UNIQUE, id AUTOINCREMENT,
\* contacted and notified are not among the inserted columns (DEFAULT 0).
CreateListing(st, l) ==
    IF ListingExists(st, l.IS24ID)
    THEN st
    ELSE Append(st, [l EXCEPT !.ID = Len(st) + 1, !.Contacted = FALSE,
                              !.Notified = FALSE])

\* ORDER BY created_at DESC: newest row first (rows are never deleted, so
\* created_at grows with id).
Reverse(seq) == [i \in 1..Len(seq) |-> seq[Len(seq) + 1 - i]]

\* GetUnnotifiedListings: WHERE notified = 0
GetUnnotifiedListings(st) ==
    Reverse(SelectSeq(st, LAMBDA r : ~r.Notified))

\* The uncontacted query without its `contacted = 0` condition.
GetNotifiedListings(st) ==
    Reverse(SelectSeq(st, LAMBDA r : r.Notified))

\* The uncontacted query without its `notified = 1` condition.
GetUncontactedAnyNotified(st) ==
    Reverse(SelectSeq(st, LAMBDA r : ~r.Contacted))

\* GetUncontactedListings: WHERE contacted = 0 AND notified = 1
GetUncontactedListings(st) ==
    Reverse(SelectSeq(st, LAMBDA r : ~r.Contacted /\ r.Notified))

\* An UPDATE that matches no row.
MarkListingNotifiedNoop(st, id) == st

\* An UPDATE listings SET notified = 1 without its WHERE id = ? clause.
MarkEveryListingNotified(st, id) ==
    [i \in DOMAIN st |-> [st[i] EXCEPT !.Notified = TRUE]]

\* MarkListingNotified: UPDATE listings SET notified = 1 WHERE id = ?
MarkListingNotified(st, id) ==
    [i \in DOMAIN st |->
        IF st[i].ID = id THEN [st[i] EXCEPT !.Notified = TRUE] ELSE st[i]]

\* MarkListingContacted: UPDATE listings SET contacted = 1 WHERE id = ?
MarkListingContacted(st, id) ==
    [i \in DOMAIN st |->
        IF st[i].ID = id THEN [st[i] EXCEPT !.Contacted = TRUE] ELSE st[i]]

\* GetActiveSearchProfiles: WHERE active = 1
GetActiveSearchProfiles == SelectSeq(SearchProfiles, LAMBDA p : p.Active)

\* An INSERT that stores the status sent at once.
CreateSentMessageAsSent(sm, m) ==
    Append(sm, [m EXCEPT !.ID = Len(sm) + 1, !.Status = "sent"])

\* CreateSentMessage: INSERT INTO sent_messages, id AUTOINCREMENT.
CreateSentMessage(sm, m) == Append(sm, [m EXCEPT !.ID = Len(sm) + 1])

\* A status update that writes nothing.
UpdateSentMessageStatusNoop(sm, id, status, errorMsg) == sm

\* UpdateSentMessageStatus: UPDATE sent_messages SET status, error_msg
\* WHERE id = ? (no row matches id 0).
UpdateSentMessageStatus(sm, id, status, errorMsg) ==
    [i \in DOMAIN sm |->
        IF sm[i].ID = id
        THEN [sm[i] EXCEPT !.Status = status, !.ErrorMsg = errorMsg]
        ELSE sm[i]]

VARIABLES
    \* Scheduler fields (scheduler.go: mu, running, stopCh, doneCh)
    running, stopCh, doneCh,
    \* channels closed so far, the shutdown context, a crashed process
    closedStop, closedDone, ctxDone, panicked,
    \* run goroutines and Stop callers
    loops, stoppers,
    \* what the latest call of Start did
    started,
    \* the listings table; the sent_messages rows of the sendContacts
    \* iteration in progress
    store, sentMessages,
    \* BotController.contactMode
    contactMode,
    \* the poll in progress: its position, the profiles still to process,
    \* the profile being processed, the listings still to process, the
    \* contact being submitted
    pc, profiles, profile, queue, cur,
    \* the message the Telegram chat received from the last step
    chat,
    \* history: poll cycles begun, the is24_ids for which Submit succeeded,
    \* facts about the cycle in progress, the last step taken
    cycles, submitted, cyc, event,
    \* one call of Config.IsQuietTime: the configuration, the clock, the
    \* answer
    quiet,
    \* one call of Engine.Filter: the listing, the profile, the result
    match,
    \* RateLimiter fields (antidetect.go: mu, requestTimes), the clock, the
    \* goroutines calling Wait, and the history of the recorded requests
    mu, requestTimes, clock, callers, records,
    \* RateLimiter.maxRequestsPerMinute
    maxRequestsPerMinute,
    \* BotController.mu and the goroutines inside SetContactMode and inside a
    \* query of the mode
    controller

loopVars == <<running, stopCh, doneCh, closedStop, closedDone, ctxDone,
              panicked, loops, stoppers, started>>

cycleVars == <<store, sentMessages, contactMode, pc, profiles,
               profile, queue, cur, chat, cycles, submitted, cyc, event>>

\* Components exercised on their own.
limiterVars == <<mu, requestTimes, clock, callers, records,
                 maxRequestsPerMinute>>

pureVars == <<quiet, match>>

unitVars == <<pureVars, limiterVars, controller>>

vars == <<loopVars, cycleVars, unitVars>>

LoopIds == 1..MaxLoops
StopperIds == 1..MaxStoppers

\* ------------------------------------------------------------ Scheduler
\* A goroutine that does not exist yet.
NoLoop ==
    [pc |-> "none", done |-> 0, step |-> 0, ticker |-> FALSE, tick |-> FALSE,
     signalled |-> FALSE, late |-> FALSE]

NoStopper == [pc |-> "idle", sig |-> 0, ch |-> 0, inCycle |-> FALSE]

\* NewScheduler: running is false, both channels nil.
InitLoop ==
    /\ running = FALSE
    /\ stopCh = 0
    /\ doneCh = 0
    /\ closedStop = {}
    /\ closedDone = {}
    /\ ctxDone = FALSE
    /\ panicked = FALSE
    /\ loops = [g \in LoopIds |-> NoLoop]
    /\ stoppers = [k \in StopperIds |-> NoStopper]
    /\ started = "never"

NumLoops == Cardinality({g \in LoopIds : loops[g].pc # "none"})

\* A Start that does not look at running.
StartUnguarded ==
    /\ ~panicked
    /\ UNCHANGED <<cycleVars, unitVars>>
    /\ NumLoops < MaxLoops
    /\ LET g == NumLoops + 1 IN
        /\ running' = TRUE
        /\ stopCh' = g
        /\ doneCh' = g
        /\ loops' = [loops EXCEPT ![g] = [NoLoop EXCEPT !.pc = "spawned"]]
        /\ started' = IF running THEN "running" ELSE "spawned"
    /\ UNCHANGED <<closedStop, closedDone, ctxDone, panicked, stoppers>>

\* Start: under mu; returns nil at once when running, else sets running,
\* makes fresh channels and does `go run`.  The goroutine exists at once;
\* its first statement runs in LoopEnter.
Start ==
    /\ ~panicked
    /\ UNCHANGED <<cycleVars, unitVars>>
    /\ IF running
       THEN /\ started' = "running"
            /\ UNCHANGED <<running, stopCh, doneCh, closedStop, closedDone,
                           ctxDone, panicked, loops, stoppers>>
       ELSE /\ NumLoops < MaxLoops
            /\ LET g == NumLoops + 1 IN
               /\ running' = TRUE
               /\ stopCh' = g
               /\ doneCh' = g
               /\ loops' = [loops EXCEPT ![g] = [NoLoop EXCEPT !.pc = "spawned"]]
            /\ started' = "spawned"
            /\ UNCHANGED <<closedStop, closedDone, ctxDone, panicked, stoppers>>

\* Stop, first half (under mu): return at once when not running, else clear
\* running and close(s.stopCh).
StopSignal(k) ==
    /\ ~panicked
    /\ UNCHANGED <<cycleVars, unitVars, started>>
    /\ stoppers[k].pc = "idle"
    /\ IF ~running
       THEN /\ stoppers' = [stoppers EXCEPT ![k].pc = "returned"]
            /\ UNCHANGED <<running, stopCh, doneCh, closedStop, closedDone,
                           ctxDone, panicked, loops>>
       ELSE /\ running' = FALSE
            /\ closedStop' = closedStop \cup {stopCh}
            /\ stoppers' = [stoppers EXCEPT ![k] =
                   [pc |-> "unlocked", sig |-> stopCh, ch |-> 0,
                    inCycle |-> loops[stopCh].pc = "poll"]]
            /\ loops' = [loops EXCEPT ![stopCh].signalled =
                             @ \/ loops[stopCh].pc = "poll"]
            /\ UNCHANGED <<stopCh, doneCh, closedDone, ctxDone, panicked>>

\* Stop, second half: `<-s.doneCh` evaluates the field s.doneCh after mu was
\* released, then blocks on that channel.
StopRead(k) ==
    /\ ~panicked
    /\ UNCHANGED <<cycleVars, unitVars, started>>
    /\ stoppers[k].pc = "unlocked"
    /\ stoppers' = [stoppers EXCEPT ![k].pc = "waiting", ![k].ch = doneCh]
    /\ UNCHANGED <<running, stopCh, doneCh, closedStop, closedDone, ctxDone,
                   panicked, loops>>

\* The receive on the closed done channel returns, and so does Stop.
StopReturn(k) ==
    /\ ~panicked
    /\ UNCHANGED <<cycleVars, unitVars, started>>
    /\ stoppers[k].pc = "waiting"
    /\ stoppers[k].ch \in closedDone
    /\ stoppers' = [stoppers EXCEPT ![k].pc = "returned"]
    /\ UNCHANGED <<running, stopCh, doneCh, closedStop, closedDone, ctxDone,
                   panicked, loops>>

\* main's signal handler: cancel() of the context passed to Start.
CancelCtx ==
    /\ ~panicked
    /\ UNCHANGED <<cycleVars, unitVars, started>>
    /\ ~ctxDone
    /\ ctxDone' = TRUE
    /\ loops' = [g \in LoopIds |->
                     [loops[g] EXCEPT !.signalled = @ \/ loops[g].pc = "poll"]]
    /\ UNCHANGED <<running, stopCh, doneCh, closedStop, closedDone, panicked,
                   stoppers>>

\* run, entry: `defer close(s.doneCh)` evaluates s.doneCh now; the first
\* poll begins immediately, before any ticker exists.
LoopEnter(g) ==
    /\ ~panicked
    /\ UNCHANGED <<cycleVars, unitVars, started>>
    /\ loops[g].pc = "spawned"
    /\ loops' = [loops EXCEPT ![g].pc = "poll", ![g].done = doneCh,
                              ![g].step = 0]
    /\ UNCHANGED <<running, stopCh, doneCh, closedStop, closedDone, ctxDone,
                   panicked, stoppers>>

\* One step of the poll cycle in flight; poll reads neither stopCh nor mu.
LoopPollStep(g) ==
    /\ ~panicked
    /\ UNCHANGED <<cycleVars, unitVars, started>>
    /\ loops[g].pc = "poll"
    /\ loops[g].step < PollSteps
    /\ loops' = [loops EXCEPT ![g].step = @ + 1]
    /\ UNCHANGED <<running, stopCh, doneCh, closedStop, closedDone, ctxDone,
                   panicked, stoppers>>

\* poll returns; after the first poll, time.NewTicker creates the ticker.
LoopPollEnd(g) ==
    /\ ~panicked
    /\ UNCHANGED <<cycleVars, unitVars, started>>
    /\ loops[g].pc = "poll"
    /\ loops[g].step = PollSteps
    /\ loops' = [loops EXCEPT ![g].pc = "select", ![g].ticker = TRUE]
    /\ UNCHANGED <<running, stopCh, doneCh, closedStop, closedDone, ctxDone,
                   panicked, stoppers>>

\* The ticker fires: its channel buffers one tick, further ticks are dropped.
\* A select that finds a case ready does not wait, so a tick falls due
\* either during a poll or while the select is blocked on all three cases.
Tick(g) ==
    /\ ~panicked
    /\ UNCHANGED <<cycleVars, unitVars, started>>
    /\ loops[g].ticker
    /\ \/ loops[g].pc = "poll"
       \/ loops[g].pc = "select" /\ stopCh \notin closedStop /\ ~ctxDone
    /\ ~loops[g].tick
    /\ loops' = [loops EXCEPT ![g].tick = TRUE]
    /\ UNCHANGED <<running, stopCh, doneCh, closedStop, closedDone, ctxDone,
                   panicked, stoppers>>

\* The deferred close(doneCh) of an exiting run; closing a closed channel
\* panics and takes the process down.
LoopExit(g) ==
    /\ IF loops[g].done \in closedDone
       THEN /\ panicked' = TRUE
            /\ UNCHANGED closedDone
       ELSE /\ closedDone' = closedDone \cup {loops[g].done}
            /\ UNCHANGED panicked
    /\ loops' = [loops EXCEPT ![g].pc = "exited", ![g].tick = FALSE]

\* select, case <-s.stopCh: the field s.stopCh is read when the select is
\* evaluated, so this is the channel of the latest Start.
SelectStop(g) ==
    /\ ~panicked
    /\ UNCHANGED <<cycleVars, unitVars, started>>
    /\ loops[g].pc = "select"
    /\ stopCh \in closedStop
    /\ LoopExit(g)
    /\ UNCHANGED <<running, stopCh, doneCh, closedStop, ctxDone, stoppers>>

\* select, case <-ctx.Done().
SelectCtx(g) ==
    /\ ~panicked
    /\ UNCHANGED <<cycleVars, unitVars, started>>
    /\ loops[g].pc = "select"
    /\ ctxDone
    /\ LoopExit(g)
    /\ UNCHANGED <<running, stopCh, doneCh, closedStop, ctxDone, stoppers>>

\* select, case <-ticker.C: the next poll begins.  Go's select picks among
\* the ready cases at random, so this case may be taken while stopCh is
\* closed or the context is done.  signalled records that Stop closed the
\* loop's stop channel, or the context was cancelled, while a cycle of the
\* loop was in flight; late records that a cycle began after that.
SelectTick(g) ==
    /\ ~panicked
    /\ UNCHANGED <<cycleVars, unitVars, started>>
    /\ loops[g].pc = "select"
    /\ loops[g].tick
    /\ loops' = [loops EXCEPT ![g].pc = "poll", ![g].step = 0,
                              ![g].tick = FALSE,
                              ![g].late = @ \/ loops[g].signalled]
    /\ UNCHANGED <<running, stopCh, doneCh, closedStop, closedDone, ctxDone,
                   panicked, stoppers>>

LoopNext ==
    \/ Start
    \/ CancelCtx
    \/ \E k \in StopperIds : StopSignal(k)
    \/ \E k \in StopperIds : StopRead(k)
    \/ \E k \in StopperIds : StopReturn(k)
    \/ \E g \in LoopIds : LoopEnter(g)
    \/ \E g \in LoopIds : LoopPollStep(g)
    \/ \E g \in LoopIds : LoopPollEnd(g)
    \/ \E g \in LoopIds : Tick(g)
    \/ \E g \in LoopIds : SelectStop(g)
    \/ \E g \in LoopIds : SelectCtx(g)
    \/ \E g \in LoopIds : SelectTick(g)

\* --------------------------------------------------------- poll cycle
\* config: cfg.Contact.Enabled (the Submitter exists iff it is set), an
\* OpenAI enhancer is configured, quiet hours are enabled from 22:00 to 07:00.
ContactEnabled == TRUE
EnhancerConfigured == TRUE
QuietHours ==
    [Enabled |-> TRUE, Start |-> <<"2","2",":","0","0">>,
     End |-> <<"0","7",":","0","0">>]

\* Minutes of the day at which a poll may begin.
ClockSamples == {0, 419, 420, 480, 1319, 1320, 1410}

Digits == <<"0","1","2","3","4","5","6","7","8","9">>

IsDigit(c) == \E i \in DOMAIN Digits : Digits[i] = c

\* int(c - '0')
DigitValue(c) == (CHOOSE i \in DOMAIN Digits : Digits[i] = c) - 1

\* splitTime: the parts of s between its colons.
RECURSIVE SplitTimeFrom(_, _, _)
SplitTimeFrom(s, parts, current) ==
    IF s = <<>> THEN Append(parts, current)
    ELSE IF Head(s) = ":" THEN SplitTimeFrom(Tail(s), Append(parts, current), <<>>)
    ELSE SplitTimeFrom(Tail(s), parts, Append(current, Head(s)))

splitTime(s) == SplitTimeFrom(s, <<>>, <<>>)

\* parseTimeString's inner loop: the number the digits of part spell, other
\* characters skipped.
RECURSIVE ParseDigits(_, _)
ParseDigits(part, n) ==
    IF part = <<>> THEN n
    ELSE IF IsDigit(Head(part))
    THEN ParseDigits(Tail(part), n * 10 + DigitValue(Head(part)))
    ELSE ParseDigits(Tail(part), n)

\* parseTimeString: the first part is the hour, the last of the others the
\* minute.
parseTimeString(s) ==
    LET parts == splitTime(s)
    IN  <<ParseDigits(parts[1], 0),
          IF Len(parts) > 1 THEN ParseDigits(parts[Len(parts)], 0) ELSE 0>>

\* A window that includes its end.
IsQuietTimeClosed(c, currentMinutes) ==
    LET startMinutes == parseTimeString(c.Start)[1] * 60 + parseTimeString(c.Start)[2]
        endMinutes == parseTimeString(c.End)[1] * 60 + parseTimeString(c.End)[2]
    IN  /\ c.Enabled
        /\ IF startMinutes > endMinutes
           THEN currentMinutes >= startMinutes \/ currentMinutes <= endMinutes
           ELSE currentMinutes >= startMinutes /\ currentMinutes <= endMinutes

\* Config.IsQuietTime at currentMinutes.
IsQuietTime(c, currentMinutes) ==
    LET startMinutes == parseTimeString(c.Start)[1] * 60 + parseTimeString(c.Start)[2]
        endMinutes == parseTimeString(c.End)[1] * 60 + parseTimeString(c.End)[2]
    IN  IF ~c.Enabled THEN FALSE
        ELSE IF startMinutes > endMinutes
        THEN currentMinutes >= startMinutes \/ currentMinutes < endMinutes
        ELSE currentMinutes >= startMinutes /\ currentMinutes < endMinutes

\* BotController.IsAutoContactEnabled / IsTestModeEnabled
IsAutoContactEnabled(mode) == mode = "on"

\* A test-mode query that is also true while contacts are sent.
IsTestModeAlsoOn(mode) == mode \in {"test", "on"}

IsTestModeEnabled(mode) == mode = "test"

\* A gate that asks for cfg.Contact.Enabled only.
AutoContactGateAnyMode(mode) == ContactEnabled

\* poll's two gates: cfg.Contact.Enabled && s.isAutoContactEnabled(), and
\* cfg.Contact.Enabled && s.isTestModeEnabled().
AutoContactGate(mode) == ContactEnabled /\ IsAutoContactEnabled(mode)
TestModeGate(mode) == ContactEnabled /\ IsTestModeEnabled(mode)

\* A detail record that keeps the SearchProfileID FetchExpose gave it (none).
DetailedRecordUnlinked(l, fetched) ==
    IF fetched = -1 THEN l ELSE ParsedListing(l.IS24ID, fetched)

\* processProfile, FetchExpose and its fallback: the record of the expose
\* page with the listing's SearchProfileID, or the search-result listing
\* itself when the fetch failed (fetched = -1).
DetailedRecord(l, fetched) ==
    IF fetched = -1 THEN l
    ELSE [ParsedListing(l.IS24ID, fetched)
             EXCEPT !.SearchProfileID = l.SearchProfileID]

\* A processProfile without the re-filter.
KeepAfterDetailAlways(detailed, p) == TRUE

\* processProfile's re-filter of the detailed listing.
KeepAfterDetail(detailed, p) == Filter(detailed, p).Passed

\* History of the cycle in progress.  allOff: the mode was Off at every
\* instant of the cycle so far.  rejected, created: identifiers dropped by
\* the re-filter and identifiers inserted during the discovery pass.  The
\* discovery pass also keeps searchFailed: a profile's search failed.  The
\* other fields are kept only while allOff holds: a Submit call was made, a
\* contacted flag was set, a NotifyNewListing call failed, a store call of
\* the notification pass failed.
NewCycle(mode) ==
    [allOff |-> mode = "off", submitCalled |-> FALSE, contactedSet |-> FALSE,
     notifyFailed |-> FALSE, storeFailed |-> FALSE, created |-> {},
     rejected |-> {}, searchFailed |-> FALSE]

\* History of the last step: what it did for which is24_id, the mode when
\* it ran, the SentMessage id it used, whether its status update, its
\* notification and its flag update succeeded, whether it called
\* RateLimiter.Wait (Search and FetchExpose do, before their request),
\* whether FetchExpose returned a record, and the message text it handed to
\* CreateSentMessage, Submit or NotifyMessagePreview.
Ev(kind, id) ==
    [kind |-> kind, id |-> id, mode |-> "", att |-> 0, updated |-> FALSE,
     delivered |-> FALSE, marked |-> FALSE, flag |-> FALSE,
     waited |-> FALSE, fetched |-> FALSE, text |-> ""]

NoMessage == <<"none", 0>>

NoCur == [listing |-> ParsedListing(0, 0), message |-> "", sentMsgID |-> 0]

\* NewBotController: contactMode starts as ContactModeOff; empty database.
InitCycle ==
    /\ store = <<>>
    /\ sentMessages = <<>>
    /\ contactMode = "off"
    /\ pc = "idle"
    /\ profiles = <<>>
    /\ profile = EmptyProfile
    /\ queue = <<>>
    /\ cur = NoCur
    /\ chat = NoMessage
    /\ cycles = 0
    /\ submitted = {}
    /\ cyc = NewCycle("off")
    /\ event = Ev("init", 0)

\* BotController.SetContactMode, called by the command listener at any time.
SetContactMode(mode) ==
    /\ contactMode' = mode
    /\ cyc' = IF pc = "idle" \/ mode = "off" THEN cyc
              ELSE [cyc EXCEPT !.allOff = FALSE, !.submitCalled = FALSE,
                               !.contactedSet = FALSE, !.notifyFailed = FALSE,
                               !.storeFailed = FALSE]
    /\ UNCHANGED <<store, sentMessages, pc, profiles, profile, queue,
                   cur, chat, cycles, submitted, event>>
    /\ UNCHANGED <<loopVars, unitVars>>

\* A gate that is reached after the first Search request was prepared.
PollBeginsGateLate(counted) ==
    /\ pc = "idle"
    /\ cycles' = IF counted THEN cycles + 1 ELSE cycles
    /\ cyc' = NewCycle(contactMode)
    /\ \E now \in ClockSamples :
        IF IsQuietTime(QuietHours, now)
        THEN /\ event' = [Ev("quiet_skip", 0) EXCEPT !.waited = TRUE]
             /\ chat' = NoMessage
             /\ UNCHANGED <<pc, profiles>>
        ELSE \/ /\ pc' = "profiles"
                /\ profiles' = GetActiveSearchProfiles
                /\ event' = Ev("poll_begin", 0)
                /\ chat' = NoMessage
             \/ \E delivered \in BOOLEAN :
                /\ chat' = IF delivered THEN <<"error", 0>> ELSE NoMessage
                /\ event' = [Ev("poll_failed", 0) EXCEPT !.delivered = delivered]
                /\ UNCHANGED <<pc, profiles>>
    /\ UNCHANGED <<store, sentMessages, contactMode, profile, queue,
                   cur, submitted>>
    /\ UNCHANGED <<loopVars, unitVars>>

\* A poll that logs the GetActiveSearchProfiles error and goes on with no
\* profiles.
PollBeginsGoesOn(counted) ==
    /\ pc = "idle"
    /\ cycles' = IF counted THEN cycles + 1 ELSE cycles
    /\ cyc' = NewCycle(contactMode)
    /\ \E now \in ClockSamples :
        IF IsQuietTime(QuietHours, now)
        THEN /\ event' = Ev("quiet_skip", 0)
             /\ chat' = NoMessage
             /\ UNCHANGED <<pc, profiles>>
        ELSE \/ /\ pc' = "profiles"
                /\ profiles' = GetActiveSearchProfiles
                /\ event' = Ev("poll_begin", 0)
                /\ chat' = NoMessage
             \/ /\ pc' = "profiles"
                /\ profiles' = <<>>
                /\ event' = Ev("poll_failed", 0)
                /\ chat' = NoMessage
    /\ UNCHANGED <<store, sentMessages, contactMode, profile, queue,
                   cur, submitted>>
    /\ UNCHANGED <<loopVars, unitVars>>

\* poll, up to the profile loop: the quiet-hours gate, then
\* GetActiveSearchProfiles.  When that fails poll returns the error and run
\* reports it with notifyError.
PollBegins(counted) ==
    /\ pc = "idle"
    /\ cycles' = IF counted THEN cycles + 1 ELSE cycles
    /\ cyc' = NewCycle(contactMode)
    /\ \E now \in ClockSamples :
        IF IsQuietTime(QuietHours, now)
        THEN /\ event' = Ev("quiet_skip", 0)
             /\ chat' = NoMessage
             /\ UNCHANGED <<pc, profiles>>
        ELSE \/ /\ pc' = "profiles"
                /\ profiles' = GetActiveSearchProfiles
                /\ event' = Ev("poll_begin", 0)
                /\ chat' = NoMessage
             \/ \E delivered \in BOOLEAN :
                /\ chat' = IF delivered THEN <<"error", 0>> ELSE NoMessage
                /\ event' = [Ev("poll_failed", 0) EXCEPT !.delivered = delivered]
                /\ UNCHANGED <<pc, profiles>>
    /\ UNCHANGED <<store, sentMessages, contactMode, profile, queue,
                   cur, submitted>>
    /\ UNCHANGED <<loopVars, unitVars>>

\* A cycle of a run that is explored for MaxCycles cycles.
BeginPoll ==
    /\ cycles < MaxCycles
    /\ PollBegins(TRUE)

\* A cycle of a run that never ends: the ticker keeps firing (run's select
\* loop), and the cycles are not counted.
BeginPollAgain ==
    PollBegins(FALSE)

\* What Search can return for a profile: for each identifier, absent (-1) or
\* present with one of the search prices; results carry the profile's ID.
SearchResults(p) ==
    { SelectSeq([i \in 1..Cardinality(Ids) |->
                    [ParsedListing(i, f[i]) EXCEPT !.SearchProfileID = p.ID]],
                LAMBDA l : l.Price # -1)
      : f \in [Ids -> SearchPrices \cup {-1}] }

\* A profile loop that returns the Search error to poll.
SearchProfileAborts ==
    /\ pc = "profiles"
    /\ profiles # <<>>
    /\ event' = Ev("search_failed", Head(profiles).ID)
    /\ pc' = "idle"
    /\ profiles' = <<>>
    /\ chat' = NoMessage
    /\ UNCHANGED <<store, sentMessages, contactMode, profile, queue, cur,
                   cycles, submitted, cyc>>
    /\ UNCHANGED <<loopVars, unitVars>>

\* processProfile, first half: Search, then the filter over its results.  A
\* Search error ends this profile only.
SearchProfile ==
    /\ pc = "profiles"
    /\ profiles # <<>>
    /\ LET p == Head(profiles) IN
       \/ /\ event' = [Ev("search_failed", p.ID) EXCEPT !.waited = TRUE]
          /\ cyc' = [cyc EXCEPT !.searchFailed = TRUE]
          /\ UNCHANGED <<pc, profile, queue>>
       \/ \E listings \in SearchResults(p) :
            LET filtered == SelectSeq(listings, LAMBDA l : Filter(l, p).Passed)
            IN  /\ profile' = IF filtered = <<>> THEN EmptyProfile ELSE p
                /\ queue' = filtered
                /\ pc' = IF filtered = <<>> THEN "profiles" ELSE "listings"
                /\ event' = [Ev("searched", p.ID) EXCEPT
                                !.flag = cyc.searchFailed,
                                !.waited = TRUE]
                /\ UNCHANGED cyc
    /\ profiles' = Tail(profiles)
    /\ chat' = NoMessage
    /\ UNCHANGED <<store, sentMessages, contactMode, cur, cycles,
                   submitted>>
    /\ UNCHANGED <<loopVars, unitVars>>

\* processProfile, one iteration of the loop over the filtered listings:
\* ListingExists, FetchExpose, the re-filter, CreateListing.  In event,
\* flag tells that the listing passed the filter on its search data and
\* fails it on the record the re-filter sees, marked that a row was inserted.
ProcessListing ==
    /\ pc = "listings"
    /\ LET l == Head(queue) IN
       /\ \/ \* the existence check failed
             /\ event' = Ev("exists_failed", l.IS24ID)
             /\ UNCHANGED <<store, cyc>>
          \/ /\ ListingExists(store, l.IS24ID)
             /\ event' = Ev("skip_exists", l.IS24ID)
             /\ UNCHANGED <<store, cyc>>
          \/ /\ ~ListingExists(store, l.IS24ID)
             /\ \E fetched \in ExposePrices \cup {-1}, saved \in BOOLEAN :
                LET detailed == DetailedRecord(l, fetched)
                    late == Filter(l, profile).Passed
                            /\ ~Filter(detailed, profile).Passed
                    rej == IF late THEN cyc.rejected \cup {l.IS24ID}
                                   ELSE cyc.rejected
                IN  IF ~KeepAfterDetail(detailed, profile)
                    THEN /\ saved
                         /\ event' = [Ev("dropped", l.IS24ID) EXCEPT
                                         !.flag = late, !.waited = TRUE,
                                         !.fetched = fetched # -1]
                         /\ cyc' = [cyc EXCEPT !.rejected = rej]
                         /\ UNCHANGED store
                    ELSE IF ~saved
                    THEN /\ event' = [Ev("save_failed", l.IS24ID) EXCEPT
                                         !.flag = late, !.waited = TRUE,
                                         !.fetched = fetched # -1]
                         /\ cyc' = [cyc EXCEPT !.rejected = rej]
                         /\ UNCHANGED store
                    ELSE /\ store' = CreateListing(store, detailed)
                         /\ event' = [Ev("saved", l.IS24ID) EXCEPT
                                         !.flag = late,
                                         !.marked = Len(store') > Len(store),
                                         !.waited = TRUE,
                                         !.fetched = fetched # -1]
                         /\ cyc' = [cyc EXCEPT !.rejected = rej,
                                               !.created = @ \cup {l.IS24ID}]
       /\ queue' = Tail(queue)
       /\ pc' = IF Tail(queue) = <<>> THEN "profiles" ELSE "listings"
       /\ profile' = IF Tail(queue) = <<>> THEN EmptyProfile ELSE profile
    /\ chat' = NoMessage
    /\ UNCHANGED <<sentMessages, contactMode, profiles, cur, cycles,
                   submitted>>
    /\ UNCHANGED <<loopVars, unitVars>>

\* sendNotifications, up to its loop: GetUnnotifiedListings.  In event,
\* flag tells that the query failed, updated that the search of one of the
\* cycle's profiles had failed.
SendNotificationsBegin ==
    /\ pc = "profiles"
    /\ profiles = <<>>
    /\ \/ /\ queue' = GetUnnotifiedListings(store)
          /\ pc' = IF queue' = <<>> THEN "gate_contact" ELSE "notify"
          /\ cyc' = [cyc EXCEPT !.created = IF queue' = <<>> THEN {} ELSE @,
                                !.rejected = {}, !.searchFailed = FALSE]
          /\ event' = [Ev("notify_begin", 0) EXCEPT
                          !.updated = cyc.searchFailed]
       \/ /\ queue' = <<>>
          /\ pc' = "gate_contact"
          /\ cyc' = [cyc EXCEPT !.created = {}, !.rejected = {},
                                !.searchFailed = FALSE,
                                !.storeFailed = cyc.allOff]
          /\ event' = [Ev("notify_begin", 0) EXCEPT
                          !.flag = TRUE, !.updated = cyc.searchFailed]
    /\ chat' = NoMessage
    /\ UNCHANGED <<store, sentMessages, contactMode, profiles,
                   profile, cur, cycles, submitted>>
    /\ UNCHANGED <<loopVars, unitVars>>

\* sendNotifications, one iteration: NotifyNewListing, then
\* MarkListingNotified; a failed notification leaves the row untouched.
\* In event, flag tells that the row was persisted by an earlier cycle.
NotifyCreated ==
    IF Tail(queue) = <<>> THEN {} ELSE cyc.created

NotifyListing ==
    /\ pc = "notify"
    /\ LET l == Head(queue) IN
       \E delivered, marked \in BOOLEAN :
          /\ IF ~delivered
             THEN /\ marked
                  /\ chat' = NoMessage
                  /\ cyc' = [cyc EXCEPT !.notifyFailed = cyc.allOff,
                                        !.created = NotifyCreated]
                  /\ UNCHANGED store
             ELSE /\ chat' = <<"new", l.IS24ID>>
                  /\ store' = IF marked THEN MarkListingNotified(store, l.ID)
                                        ELSE store
                  /\ cyc' = [cyc EXCEPT
                                !.storeFailed = @ \/ (cyc.allOff /\ ~marked),
                                !.created = NotifyCreated]
          /\ event' = [Ev("notify", l.IS24ID) EXCEPT
                          !.delivered = delivered,
                          !.marked = delivered /\ marked,
                          !.flag = l.IS24ID \notin cyc.created]
    /\ queue' = Tail(queue)
    /\ pc' = IF Tail(queue) = <<>> THEN "gate_contact" ELSE "notify"
    /\ UNCHANGED <<sentMessages, contactMode, profiles, profile, cur,
                   cycles, submitted>>
    /\ UNCHANGED <<loopVars, unitVars>>

\* poll's first gate, and sendContacts up to its loop: the mode is read
\* here, once for the whole pass; then GetUncontactedListings.
CheckAutoContact ==
    /\ pc = "gate_contact"
    /\ IF AutoContactGate(contactMode)
       THEN \/ /\ queue' = GetUncontactedListings(store)
               /\ pc' = IF queue' = <<>> THEN "gate_test" ELSE "contact"
            \/ /\ queue' = <<>>
               /\ pc' = "gate_test"
       ELSE /\ pc' = "gate_test"
            /\ UNCHANGED queue
    /\ event' = [Ev("gate_contact", 0) EXCEPT !.mode = contactMode]
    /\ chat' = NoMessage
    /\ UNCHANGED <<store, sentMessages, contactMode, profiles,
                   profile, cur, cycles, submitted, cyc>>
    /\ UNCHANGED <<loopVars, unitVars>>

\* The message of one listing: Generate, then Enhance when an enhancer is
\* configured, falling back to the generated text when Enhance fails.
ComposedMessages ==
    IF EnhancerConfigured THEN {"base", "enhanced"} ELSE {"base"}

\* A sendContacts that continues with the next listing when Enhance fails.
ContactPrepareDropsUnenhanced ==
    /\ pc = "contact"
    /\ LET l == Head(queue) IN
       \/ /\ queue' = Tail(queue)
          /\ pc' = IF Tail(queue) = <<>> THEN "gate_test" ELSE "contact"
          /\ \E kind \in {"generate_failed", "enhance_failed"} :
                event' = Ev(kind, l.IS24ID)
          /\ sentMessages' = <<>>
          /\ UNCHANGED cur
       \/ \E recorded \in BOOLEAN :
          LET sentMsg == [ID |-> 0, ListingID |-> l.ID, IS24ID |-> l.IS24ID,
                          Message |-> "enhanced", Status |-> "pending",
                          ErrorMsg |-> ""]
              inserted == CreateSentMessage(<<>>, sentMsg)
              newID == inserted[Len(inserted)].ID
          IN  /\ sentMessages' = IF recorded THEN inserted ELSE <<>>
              /\ cur' = [listing |-> l, message |-> "enhanced",
                         sentMsgID |-> IF recorded THEN newID ELSE 0]
              /\ pc' = "submit"
              /\ event' = [Ev("prepared", l.IS24ID) EXCEPT
                              !.att = IF recorded THEN newID ELSE 0,
                              !.text = "enhanced"]
              /\ UNCHANGED queue
    /\ chat' = NoMessage
    /\ UNCHANGED <<store, contactMode, profiles, profile, cycles, submitted,
                   cyc>>
    /\ UNCHANGED <<loopVars, unitVars>>

\* sendContacts, one iteration up to Submit: Generate, Enhance, and
\* CreateSentMessage with status pending (its failure is only logged, and
\* leaves sentMsg.ID = 0).  The sent_messages rows of earlier iterations are
\* never read or updated again (UpdateSentMessageStatus addresses the id
\* CreateSentMessage just returned): the model forgets them, and numbers the
\* rows it keeps from 1.
ContactPrepare ==
    /\ pc = "contact"
    /\ LET l == Head(queue) IN
       \/ \* Generate failed: continue with the next listing
          /\ queue' = Tail(queue)
          /\ pc' = IF Tail(queue) = <<>> THEN "gate_test" ELSE "contact"
          /\ event' = Ev("generate_failed", l.IS24ID)
          /\ sentMessages' = <<>>
          /\ UNCHANGED cur
       \/ \E message \in ComposedMessages, recorded \in BOOLEAN :
          LET sentMsg == [ID |-> 0, ListingID |-> l.ID, IS24ID |-> l.IS24ID,
                          Message |-> message, Status |-> "pending",
                          ErrorMsg |-> ""]
              inserted == CreateSentMessage(<<>>, sentMsg)
              newID == inserted[Len(inserted)].ID
          IN  /\ sentMessages' = IF recorded THEN inserted ELSE <<>>
              /\ cur' = [listing |-> l, message |-> message,
                         sentMsgID |-> IF recorded THEN newID ELSE 0]
              /\ pc' = "submit"
              /\ event' = [Ev("prepared", l.IS24ID) EXCEPT
                              !.att = IF recorded THEN newID ELSE 0,
                              !.text = message]
              /\ UNCHANGED queue
    /\ chat' = NoMessage
    /\ UNCHANGED <<store, contactMode, profiles, profile, cycles, submitted,
                   cyc>>
    /\ UNCHANGED <<loopVars, unitVars>>

\* sendContacts, the rest of the iteration: Submit; on failure
\* UpdateSentMessageStatus(failed, err) and NotifyContactFailed; on success
\* MarkListingContacted, UpdateSentMessageStatus(sent) and NotifyContactSent.
\* The errors of the updates and notifications are ignored or only logged.
\* In event, flag tells that an earlier Submit for the listing had succeeded.
ContactSubmit ==
    /\ pc = "submit"
    /\ LET l == cur.listing IN
       \E ok, marked, updated, delivered \in BOOLEAN :
          /\ IF ~ok
             THEN /\ marked
                  /\ sentMessages' =
                        IF updated
                        THEN UpdateSentMessageStatus(sentMessages, cur.sentMsgID,
                                                     "failed", "submit error")
                        ELSE sentMessages
                  /\ chat' = IF delivered THEN <<"contact_failed", l.IS24ID>>
                                          ELSE NoMessage
                  /\ UNCHANGED <<store, submitted>>
             ELSE /\ store' = IF marked THEN MarkListingContacted(store, l.ID)
                                        ELSE store
                  /\ sentMessages' =
                        IF updated
                        THEN UpdateSentMessageStatus(sentMessages, cur.sentMsgID,
                                                     "sent", "")
                        ELSE sentMessages
                  /\ chat' = IF delivered THEN <<"contact_sent", l.IS24ID>>
                                          ELSE NoMessage
                  /\ submitted' = submitted \cup {l.IS24ID}
          /\ cyc' = [cyc EXCEPT
                        !.submitCalled = cyc.allOff,
                        !.contactedSet = @ \/ (cyc.allOff /\ ok /\ marked)]
          /\ event' = [Ev(IF ok THEN "submit_ok" ELSE "submit_failed", l.IS24ID)
                         EXCEPT !.mode = contactMode, !.att = cur.sentMsgID,
                                !.updated = updated, !.delivered = delivered,
                                !.marked = ok /\ marked,
                                !.flag = ok /\ l.IS24ID \in submitted,
                                !.text = cur.message]
    /\ cur' = NoCur
    /\ queue' = Tail(queue)
    /\ pc' = IF Tail(queue) = <<>> THEN "gate_test" ELSE "contact"
    /\ UNCHANGED <<contactMode, profiles, profile, cycles>>
    /\ UNCHANGED <<loopVars, unitVars>>

\* poll's second gate, and sendTestPreviews up to its loop: the mode is read
\* again, once for the whole pass; then GetUncontactedListings.
CheckTestMode ==
    /\ pc = "gate_test"
    /\ IF TestModeGate(contactMode)
       THEN \/ /\ queue' = GetUncontactedListings(store)
               /\ pc' = IF queue' = <<>> THEN "finish" ELSE "preview"
            \/ /\ queue' = <<>>
               /\ pc' = "finish"
       ELSE /\ pc' = "finish"
            /\ UNCHANGED queue
    /\ event' = [Ev("gate_test", 0) EXCEPT !.mode = contactMode]
    /\ sentMessages' = <<>>
    /\ chat' = NoMessage
    /\ UNCHANGED <<store, contactMode, profiles, profile, cur, cycles,
                   submitted, cyc>>
    /\ UNCHANGED <<loopVars, unitVars>>

\* sendTestPreviews, one iteration: Generate, Enhance, NotifyMessagePreview,
\* then MarkListingContacted; no SentMessage is recorded and nothing is
\* submitted.  In event, flag tells that the row was contacted already.
PreviewListing ==
    /\ pc = "preview"
    /\ LET l == Head(queue) IN
       \/ \* Generate failed
          /\ event' = Ev("generate_failed", l.IS24ID)
          /\ chat' = NoMessage
          /\ UNCHANGED <<store, cyc>>
       \/ \E message \in ComposedMessages, delivered, marked \in BOOLEAN :
          /\ IF ~delivered
             THEN /\ marked
                  /\ chat' = NoMessage
                  /\ UNCHANGED <<store, cyc>>
             ELSE /\ chat' = <<"preview", l.IS24ID>>
                  /\ store' = IF marked THEN MarkListingContacted(store, l.ID)
                                        ELSE store
                  /\ cyc' = [cyc EXCEPT
                                !.contactedSet = @ \/ (cyc.allOff /\ marked)]
          /\ event' = [Ev("preview", l.IS24ID) EXCEPT
                          !.mode = contactMode, !.delivered = delivered,
                          !.marked = delivered /\ marked,
                          !.flag = \E i \in DOMAIN store :
                                      /\ store[i].IS24ID = l.IS24ID
                                      /\ store[i].Contacted,
                          !.text = message]
    /\ queue' = Tail(queue)
    /\ pc' = IF Tail(queue) = <<>> THEN "finish" ELSE "preview"
    /\ UNCHANGED <<sentMessages, contactMode, profiles, profile, cur,
                   cycles, submitted>>
    /\ UNCHANGED <<loopVars, unitVars>>

\* poll returns nil: "poll cycle complete".
EndPoll ==
    /\ pc = "finish"
    /\ pc' = "idle"
    /\ event' = Ev("cycle_done", 0)
    /\ chat' = NoMessage
    /\ UNCHANGED <<store, sentMessages, contactMode, profiles,
                   profile, queue, cur, cycles, submitted, cyc>>
    /\ UNCHANGED <<loopVars, unitVars>>

Modes == {"off", "test", "on"}

Next ==
    \/ \E mode \in Modes : SetContactMode(mode)
    \/ BeginPoll
    \/ SearchProfile
    \/ ProcessListing
    \/ SendNotificationsBegin
    \/ NotifyListing
    \/ CheckAutoContact
    \/ ContactPrepare
    \/ ContactSubmit
    \/ CheckTestMode
    \/ PreviewListing
    \/ EndPoll

\* main calls Start once.
StartOnce ==
    /\ NumLoops = 0
    /\ Start

MainNext ==
    \/ StartOnce
    \/ CancelCtx
    \/ \E k \in StopperIds : StopSignal(k)
    \/ \E k \in StopperIds : StopRead(k)
    \/ \E k \in StopperIds : StopReturn(k)
    \/ \E g \in LoopIds : LoopEnter(g)
    \/ \E g \in LoopIds : LoopPollStep(g)
    \/ \E g \in LoopIds : LoopPollEnd(g)
    \/ \E g \in LoopIds : Tick(g)
    \/ \E g \in LoopIds : SelectStop(g)
    \/ \E g \in LoopIds : SelectCtx(g)
    \/ \E g \in LoopIds : SelectTick(g)

\* ---------------------------------------------------------- RateLimiter
\* The clock counts ticks of 20 seconds: time.Minute is three of them.
\* NewRateLimiter(2, 0, 2 ticks): randomDelay draws from [minDelay, maxDelay).
Minute == 3
MaxRequestsPerMinute == 2
MinDelay == 0
MaxDelay == 2

CallerIds == 1..MaxCallers

\* randomDelay
RandomDelays ==
    IF MaxDelay <= MinDelay THEN {MinDelay} ELSE MinDelay..(MaxDelay - 1)

\* Wait: the request times after cutoff = now - time.Minute.
TrimRequestTimes(times, now) ==
    SelectSeq(times, LAMBDA t : t > now - Minute)

\* A limit that lets one request more through.
AtLimitLate(times) == Len(times) > maxRequestsPerMinute

\* Wait: len(rl.requestTimes) >= rl.maxRequestsPerMinute
AtLimit(times) == Len(times) >= maxRequestsPerMinute

\* A mutex that never blocks.
MutexAlwaysFree == TRUE

\* rl.mu is unlocked.
MutexFree == mu = 0

IdleCaller == [pc |-> "idle", now |-> 0, wake |-> 0, limited |-> FALSE]

\* NewRateLimiter(maxPerMinute, ...): no request recorded, nobody inside
\* Wait.
NewRateLimiter(maxPerMinute) ==
    /\ mu = 0
    /\ requestTimes = <<>>
    /\ clock = 0
    /\ callers = [k \in CallerIds |-> IdleCaller]
    /\ records = <<>>
    /\ maxRequestsPerMinute = maxPerMinute

InitLimiter == NewRateLimiter(MaxRequestsPerMinute)

\* Any configured maximum from 0 on.
InitLimiterAny == \E n \in 0..MaxRequestsPerMinute : NewRateLimiter(n)

\* A call of Wait ended in a run-time panic; nothing recovers it, and the
\* process is gone.
WaitPanicked == \E k \in CallerIds : callers[k].pc = "panicked"

\* Calls of Wait begun so far.
NumCalls ==
    Len(records) + Cardinality({k \in CallerIds : callers[k].pc \in
                                   {"locked", "limit_sleep", "delay_sleep"}})

\* Time passes.
ClockTick ==
    /\ clock < MaxClock
    /\ clock' = clock + 1
    /\ UNCHANGED <<mu, requestTimes, callers, records>>
    /\ UNCHANGED <<loopVars, cycleVars, pureVars, controller,
                   maxRequestsPerMinute>>

\* Wait: rl.mu.Lock()
WaitLock(k) ==
    /\ ~WaitPanicked
    /\ callers[k].pc = "idle"
    /\ NumCalls < MaxCalls
    /\ MutexFree
    /\ mu' = k
    /\ callers' = [callers EXCEPT ![k].pc = "locked"]
    /\ UNCHANGED <<requestTimes, clock, records>>
    /\ UNCHANGED <<loopVars, cycleVars, pureVars, controller,
                   maxRequestsPerMinute>>

\* Wait: now := time.Now(), the trim, and the limit test, which starts the
\* sleep until the oldest request time is a minute old.  At the limit with
\* an empty window rl.requestTimes[0] is out of range: the call panics, and
\* its deferred Unlock runs.
WaitTrim(k) ==
    /\ callers[k].pc = "locked"
    /\ LET now == clock
           filtered == TrimRequestTimes(requestTimes, now)
           waitUntil == IF AtLimit(filtered) /\ filtered # <<>>
                        THEN filtered[1] + Minute ELSE now
       IN  /\ requestTimes' = filtered
           /\ IF AtLimit(filtered) /\ filtered = <<>>
              THEN /\ callers' = [callers EXCEPT ![k].pc = "panicked",
                                                 ![k].now = now]
                   /\ mu' = 0
              ELSE /\ callers' = [callers EXCEPT
                             ![k].pc = "limit_sleep",
                             ![k].now = now,
                             ![k].limited = AtLimit(filtered) /\ waitUntil > now,
                             ![k].wake = IF waitUntil > now THEN waitUntil ELSE now]
                   /\ UNCHANGED mu
    /\ UNCHANGED <<clock, records>>
    /\ UNCHANGED <<loopVars, cycleVars, pureVars, controller,
                   maxRequestsPerMinute>>

\* Wait: the limit sleep is over (time.Sleep returns at its time or later);
\* the random delay starts.
WaitDelay(k) ==
    /\ callers[k].pc = "limit_sleep"
    /\ clock >= callers[k].wake
    /\ \E delay \in RandomDelays :
          callers' = [callers EXCEPT ![k].pc = "delay_sleep",
                                     ![k].wake = clock + delay]
    /\ UNCHANGED <<mu, requestTimes, clock, records>>
    /\ UNCHANGED <<loopVars, cycleVars, pureVars, controller,
                   maxRequestsPerMinute>>

\* Wait: the delay is over; rl.requestTimes = append(..., time.Now()).
WaitRecord(k) ==
    /\ callers[k].pc = "delay_sleep"
    /\ clock >= callers[k].wake
    /\ requestTimes' = Append(requestTimes, clock)
    /\ records' = Append(records, [caller |-> k, time |-> clock,
                                    called |-> callers[k].now,
                                    limited |-> callers[k].limited,
                                    returned |-> FALSE])
    /\ callers' = [callers EXCEPT ![k].pc = "recorded"]
    /\ UNCHANGED <<mu, clock>>
    /\ UNCHANGED <<loopVars, cycleVars, pureVars, controller,
                   maxRequestsPerMinute>>

\* Wait returns: the deferred rl.mu.Unlock().
WaitUnlock(k) ==
    /\ callers[k].pc = "recorded"
    /\ mu' = IF mu = k THEN 0 ELSE mu
    /\ records' = [i \in DOMAIN records |->
                      IF records[i].caller = k /\ ~records[i].returned
                      THEN [records[i] EXCEPT !.returned = TRUE]
                      ELSE records[i]]
    /\ callers' = [callers EXCEPT ![k] = IdleCaller]
    /\ UNCHANGED <<requestTimes, clock>>
    /\ UNCHANGED <<loopVars, cycleVars, pureVars, controller,
                   maxRequestsPerMinute>>

LimiterNext ==
    \/ ClockTick
    \/ \E k \in CallerIds : WaitLock(k)
    \/ \E k \in CallerIds : WaitTrim(k)
    \/ \E k \in CallerIds : WaitDelay(k)
    \/ \E k \in CallerIds : WaitRecord(k)
    \/ \E k \in CallerIds : WaitUnlock(k)

\* -------------------------------------------------------- BotController
\* The command listener inside SetContactMode and the scheduler worker
\* inside a query of the mode; committed and previous are history: the
\* modes of the last SetContactMode that returned and of the one before.
NoQuery == [pc |-> "idle", query |-> "", got |-> "off", answer |-> FALSE]

Queries == {"IsAutoContactEnabled", "IsTestModeEnabled", "GetContactMode"}

InitController ==
    controller = [mu |-> "free",
                  setter |-> [pc |-> "idle", mode |-> "off"],
                  reader |-> NoQuery,
                  committed |-> "off", previous |-> "off"]

\* An RLock that does not wait for the writer.
ReadAlwaysAllowed == TRUE

\* c.mu.RLock() can proceed: no writer holds the mutex.
ReadAllowed == controller.mu # "write"

\* handleCommand, SetContactMode: c.mu.Lock()
SetLock(mode) ==
    /\ controller.setter.pc = "idle"
    /\ controller.mu = "free"
    /\ controller' = [controller EXCEPT
                         !.mu = "write",
                         !.setter = [pc |-> "locked", mode |-> mode]]
    /\ UNCHANGED <<loopVars, cycleVars, pureVars, limiterVars>>

\* SetContactMode: c.contactMode = mode
SetWrite ==
    /\ controller.setter.pc = "locked"
    /\ contactMode' = controller.setter.mode
    /\ controller' = [controller EXCEPT !.setter.pc = "written"]
    /\ UNCHANGED <<store, sentMessages, pc, profiles, profile, queue, cur,
                   chat, cycles, submitted, cyc, event>>
    /\ UNCHANGED <<loopVars, pureVars, limiterVars>>

\* SetContactMode: c.mu.Unlock(), and the call returns.
SetUnlock ==
    /\ controller.setter.pc = "written"
    /\ controller' = [controller EXCEPT
                         !.mu = "free",
                         !.setter = [pc |-> "idle", mode |-> "off"],
                         !.committed = controller.setter.mode,
                         !.previous = controller.committed]
    /\ UNCHANGED <<loopVars, cycleVars, pureVars, limiterVars>>

\* IsAutoContactEnabled / IsTestModeEnabled / GetContactMode: c.mu.RLock()
ReadLock(query) ==
    /\ controller.reader.pc = "idle"
    /\ ReadAllowed
    /\ controller' = [controller EXCEPT
                         !.mu = IF @ = "free" THEN "read" ELSE @,
                         !.reader.pc = "locked",
                         !.reader.query = query]
    /\ UNCHANGED <<loopVars, cycleVars, pureVars, limiterVars>>

\* The query reads c.contactMode and compares it.
ReadMode ==
    /\ controller.reader.pc = "locked"
    /\ controller' = [controller EXCEPT
                         !.reader.pc = "read",
                         !.reader.got = contactMode,
                         !.reader.answer =
                             CASE controller.reader.query = "IsAutoContactEnabled"
                                    -> IsAutoContactEnabled(contactMode)
                               [] controller.reader.query = "IsTestModeEnabled"
                                    -> IsTestModeEnabled(contactMode)
                               [] OTHER -> FALSE]
    /\ UNCHANGED <<loopVars, cycleVars, pureVars, limiterVars>>

\* The query returns: the deferred c.mu.RUnlock().
ReadUnlock ==
    /\ controller.reader.pc = "read"
    /\ controller' = [controller EXCEPT
                         !.mu = IF @ = "read" THEN "free" ELSE @,
                         !.reader = NoQuery]
    /\ UNCHANGED <<loopVars, cycleVars, pureVars, limiterVars>>

ControllerNext ==
    \/ \E mode \in {"off", "test", "on"} : SetLock(mode)
    \/ SetWrite
    \/ SetUnlock
    \/ \E query \in Queries : ReadLock(query)
    \/ ReadMode
    \/ ReadUnlock

\* No call of a component on its own.
NoQuiet ==
    [cfg |-> QuietHours, start |-> 0, end |-> 0, now |-> 0, done |-> TRUE,
     skipped |-> FALSE]

NoVerdict == Filter(ParsedListing(0, 0), EmptyProfile)

NoMatch ==
    [listing |-> ParsedListing(0, 0), profile |-> EmptyProfile, done |-> TRUE,
     result |-> NoVerdict, redone |-> TRUE, second |-> NoVerdict]

InitUnits ==
    /\ quiet = NoQuiet
    /\ match = NoMatch
    /\ InitLimiter
    /\ InitController

Init == InitLoop /\ InitCycle /\ InitUnits

\* Poll cycles of one worker and the command listener.
Spec == Init /\ [][Next]_vars

\* Any callers of Start and Stop on one Scheduler.
SpecLoop == Init /\ [][LoopNext]_vars

\* The Scheduler as main uses it: one Start, Stop from the signal handler.
SpecMain == Init /\ [][MainNext]_vars

\* The steps of a worker whose ticker never stops and whose operator leaves
\* the mode Off: discovery, the notification pass, the two gates.
LiveNext ==
    \/ BeginPollAgain
    \/ SearchProfile
    \/ ProcessListing
    \/ SendNotificationsBegin
    \/ NotifyListing
    \/ CheckAutoContact
    \/ CheckTestMode
    \/ EndPoll

\* Unending cycles: run's loop takes the next step of poll whenever there is
\* one, and the ticker fires again after every cycle.
SpecLive == Init /\ [][LiveNext]_vars /\ WF_vars(LiveNext)

\* ---------------------------------------------------------------- filter
\* Listings that differ in the fields the location, amenity and price
\* matchers read.
FilterListings ==
    { [ParsedListing(1, price) EXCEPT
          !.City = city, !.District = district, !.PostalCode = postalCode,
          !.HasBalcony = balcony, !.HasElevator = elevator]
      : price \in SearchPrices,
        city \in {<<>>, Berlin, BerlinUpper, Bonn},
        district \in {<<>>, BerlinMitte, Wedding},
        postalCode \in {<<>>, <<"1">>, <<"1","0">>, <<"1","0","1">>,
                        <<"8","0","3">>},
        balcony \in BOOLEAN, elevator \in BOOLEAN }

\* Profiles that set or leave unset the same criteria.
FilterProfiles ==
    { [EmptyProfile EXCEPT
          !.ID = 1, !.MaxPrice = 1500, !.City = city, !.Districts = districts,
          !.PostalCodes = postalCodes, !.HasBalcony = balcony,
          !.HasElevator = elevator]
      : city \in {<<>>, Berlin},
        districts \in {<<>>, <<Mitte>>},
        postalCodes \in {<<>>, << <<"1","0">> >>,
                         << <<"8","0">>, <<"1","0","1">> >>},
        balcony \in {"nil", "true"},
        elevator \in {"nil", "true", "false"} }

\* Listings that differ in the fields the range and amenity matchers read:
\* a value of 0 and an unknown pets status are missing data.
RangeListings ==
    { [ParsedListing(1, price) EXCEPT
          !.Rooms = rooms, !.Area = area, !.BuildYear = buildYear,
          !.PetsAllowed = pets, !.HasEBK = ebk]
      : price \in {0, 1500, 1600},
        rooms \in {0, 1, 2},
        area \in {0, 50},
        buildYear \in {0, 1990},
        pets \in {"nil", "true", "false"},
        ebk \in BOOLEAN }

\* Profiles on Berlin with each range unset, bounded below or bounded
\* above, with or without amenity requirements.
RangeProfiles ==
    { [EmptyProfile EXCEPT
          !.ID = 1, !.City = Berlin,
          !.MinPrice = price[1], !.MaxPrice = price[2],
          !.MinRooms = rooms[1], !.MaxRooms = rooms[2],
          !.MinArea = area[1], !.MaxArea = area[2],
          !.MinBuildYear = year[1], !.MaxBuildYear = year[2],
          !.PetsAllowed = pets, !.HasEBK = ebk]
      : price \in {<<0, 0>>, <<0, 1500>>, <<1600, 0>>},
        rooms \in {<<0, 0>>, <<2, 0>>, <<0, 1>>},
        area \in {<<0, 0>>, <<60, 0>>, <<0, 40>>},
        year \in {<<0, 0>>, <<2000, 0>>, <<0, 1980>>},
        pets \in {"nil", "true", "false"},
        ebk \in {"nil", "true"} }

Nice == <<"N","i","c","e">>
FlatUpper == <<"F","L","A","T">>
MitteUpper == <<"M","I","T","T","E">>

\* Listings that differ in their texts: title, description, city, district.
TextListings ==
    { [ParsedListing(1, 0) EXCEPT
          !.Title = title, !.Description = description, !.City = city,
          !.District = district]
      : title \in {<<>>, Flat},
        description \in {<<>>, Nice, FlatUpper},
        city \in {<<>>, Berlin, BerlinUpper, Bonn},
        district \in {<<>>, MitteUpper, BerlinMitte, Wedding} }

\* Profiles that differ in their exclusion keywords, city and districts.
TextProfiles ==
    { [EmptyProfile EXCEPT
          !.ID = 1, !.ExcludeKeywords = keywords, !.City = city,
          !.Districts = districts]
      : keywords \in {<<>>, <<ToLower(Flat)>>, <<Nice, ToLower(Flat)>>,
                      <<Bonn, ToLower(Nice), FlatUpper>>,
                      << <<"t"," ","n">> >>, << <<"t","n">> >>},
        city \in {<<>>, Berlin, Bonn},
        districts \in {<<>>, <<Mitte>>, <<Bonn, Wedding>>,
                       <<BerlinMitte>>} }

\* The pairs Filter is called with: location and amenity cases, range
\* cases, text cases, and every listing against the profile that sets
\* nothing.
FilterCases ==
    (FilterListings \X FilterProfiles)
        \cup (RangeListings \X RangeProfiles)
        \cup (TextListings \X TextProfiles)
        \cup ((FilterListings \cup RangeListings) \X {EmptyProfile})

\* Any of the pairs, not evaluated yet.
InitFilter ==
    /\ InitLoop
    /\ InitCycle
    /\ InitLimiter
    /\ InitController
    /\ quiet = NoQuiet
    /\ \E case \in FilterCases :
          match = [listing |-> case[1], profile |-> case[2], done |-> FALSE,
                   result |-> NoVerdict, redone |-> FALSE,
                   second |-> NoVerdict]

\* processProfile: s.filter.Filter(&l, profile).  Filter reads its
\* arguments and writes neither.
FilterListing ==
    /\ ~match.done
    /\ match' = [match EXCEPT !.done = TRUE,
                              !.result = Filter(match.listing, match.profile)]
    /\ UNCHANGED <<loopVars, cycleVars, limiterVars, controller, quiet>>

\* An engine that keeps one reasons slice and appends to it in every call.
FilterAgainShared ==
    /\ match.done
    /\ ~match.redone
    /\ LET verdict == Filter(match.listing, match.profile)
       IN  match' = [match EXCEPT
                        !.redone = TRUE,
                        !.second = [Passed |-> verdict.Passed,
                                    Reasons |-> match.result.Reasons
                                                    \o verdict.Reasons]]
    /\ UNCHANGED <<loopVars, cycleVars, limiterVars, controller, quiet>>

\* processProfile: the second call, s.filter.Filter(detailed, profile), for
\* a listing whose expose fetch failed (detailed = &listing).
FilterAgain ==
    /\ match.done
    /\ ~match.redone
    /\ match' = [match EXCEPT !.redone = TRUE,
                              !.second = Filter(match.listing, match.profile)]
    /\ UNCHANGED <<loopVars, cycleVars, limiterVars, controller, quiet>>

FilterNext ==
    \/ FilterListing
    \/ FilterAgain

SpecFilter == InitFilter /\ [][FilterNext]_vars

\* The command listener setting the mode while the worker queries it.
SpecMode == Init /\ [][ControllerNext]_vars

\* Goroutines calling Wait on one RateLimiter while time passes.
SpecLimiter == Init /\ [][LimiterNext]_vars

\* The same with any configured maximum.
InitAnyLimit ==
    /\ InitLoop
    /\ InitCycle
    /\ InitController
    /\ quiet = NoQuiet
    /\ match = NoMatch
    /\ InitLimiterAny

SpecLimiterAny == InitAnyLimit /\ [][LimiterNext]_vars

\* ----------------------------------------------------------- quiet hours
\* The time of day that is minutes after midnight, written as the
\* configuration file writes it: "HH:MM".
FormatTime(minutes) ==
    LET h == minutes \div 60
        m == minutes % 60
    IN  <<Digits[(h \div 10) + 1], Digits[(h % 10) + 1], ":",
          Digits[(m \div 10) + 1], Digits[(m % 10) + 1]>>

\* Window borders and clock readings, in minutes after midnight.
WindowTimes == {0, 7 * 60, 12 * 60, 14 * 60 + 30, 22 * 60, 23 * 60 + 59}
MinutesOfDay == 0..(24 * 60 - 1)

\* Any window, enabled or not, at any minute of the day.
InitQuiet ==
    /\ InitLoop
    /\ InitCycle
    /\ InitLimiter
    /\ InitController
    /\ match = NoMatch
    /\ \E enabled \in BOOLEAN, start, end \in WindowTimes, now \in MinutesOfDay :
          quiet = [cfg |-> [Enabled |-> enabled, Start |-> FormatTime(start),
                            End |-> FormatTime(end)],
                   start |-> start, end |-> end, now |-> now,
                   done |-> FALSE, skipped |-> FALSE]

\* poll's gate: s.cfg.IsQuietTime().
QuietGate ==
    /\ ~quiet.done
    /\ quiet' = [quiet EXCEPT !.done = TRUE,
                              !.skipped = IsQuietTime(quiet.cfg, quiet.now)]
    /\ UNCHANGED <<loopVars, cycleVars, limiterVars, controller, match>>

SpecQuiet == InitQuiet /\ [][QuietGate]_vars

\* ------------------------------------------------------------- claims
\* C1: at most one poll cycle is in flight at any instant, for every
\* interleaving of Start(), Stop() and ticks, including a Start() issued
\* after Stop() cleared running while the previous loop is still in its cycle.
AtMostOneCycleInFlight ==
    Cardinality({g \in LoopIds : loops[g].pc = "poll"}) <= 1

\* C2: a Stop() that signalled a loop while its cycle was in flight returns
\* only after that cycle has completed and the signalled run loop has exited.
StopReturnsAfterLoopExit ==
    \A k \in StopperIds :
        (stoppers[k].pc = "returned" /\ stoppers[k].sig # 0 /\ stoppers[k].inCycle)
            => loops[stoppers[k].sig].pc = "exited"

\* C3: once the loop was signalled (its stop channel closed, or the context
\* cancelled) during a cycle, no further poll cycle begins in that loop.
NoCycleBeginsAfterStopSignal ==
    \A g \in LoopIds : ~loops[g].late

\* The row of an external identifier, and membership in a query result.
Row(is24ID) == CHOOSE r \in {store[i] : i \in 1..Len(store)} : r.IS24ID = is24ID

InSeq(x, seq) == \E i \in 1..Len(seq) : seq[i] = x

\* C4: a candidate for which Submit succeeded once is never submitted
\* again: no Submit call succeeds for an is24_id for which an earlier
\* Submit call had succeeded.
SubmitSucceedsAtMostOnce ==
    event.kind = "submit_ok" => ~event.flag

\* C5: the mode is read for each candidate of the action pass: every Submit
\* call is made while the mode is On.
SubmitOnlyWhileModeOn ==
    event.kind \in {"submit_ok", "submit_failed"} => event.mode = "on"

\* A row is contacted only if it is notified.
ContactedOnlyIfNotified ==
    \A i \in 1..Len(store) : store[i].Contacted => store[i].Notified

\* A step removes no row, changes no external identifier, clears no flag.
FlagsOnlyAdvance ==
    /\ Len(store') >= Len(store)
    /\ \A i \in 1..Len(store) :
        /\ store'[i].IS24ID = store[i].IS24ID
        /\ store[i].Notified => store'[i].Notified
        /\ store[i].Contacted => store'[i].Contacted

\* C6: the candidate lifecycle is discovered, notified, contacted: a row is
\* contacted only if it is notified, and no step removes a row, changes its
\* external identifier or clears one of its flags.
LifecycleOnlyAdvances ==
    []ContactedOnlyIfNotified /\ [][FlagsOnlyAdvance]_vars

LifecycleWitness ==
    /\ event.kind = "submit_ok"
    /\ event.marked
    /\ Row(event.id).Contacted
    /\ Row(event.id).Notified

\* No two rows share an external identifier, and CreateListing of a listing
\* whose identifier is stored returns the store unchanged.
UniqueExternalId ==
    /\ \A i, j \in 1..Len(store) :
        store[i].IS24ID = store[j].IS24ID => i = j
    /\ \A i \in 1..Len(store), price \in SearchPrices \cup ExposePrices,
          p \in {1, 2} :
        CreateListing(store, [ParsedListing(store[i].IS24ID, price)
                                 EXCEPT !.SearchProfileID = p]) = store

\* The step for a search result whose identifier is stored leaves the store
\* as it is.
ExistingIsSkipped ==
    (pc = "listings" /\ ListingExists(store, Head(queue).IS24ID))
        => store' = store

\* C7: the store holds at most one row per external identifier; inserting a
\* listing whose identifier is stored changes nothing; and a search result
\* whose identifier is stored is skipped, leaving the store as it is.
OneRecordPerExternalId ==
    []UniqueExternalId /\ [][ExistingIsSkipped]_vars

DuplicateWitness ==
    /\ event.kind = "skip_exists"
    /\ ListingExists(store, event.id)
    /\ Len(store) = 2

\* C8: a candidate that passed the filter on its search data and fails it on
\* the record the re-filter sees is not persisted by that processing: the
\* step that handles it inserts no row.
LateRejectedNotPersisted ==
    (event.kind \in {"dropped", "saved", "save_failed"} /\ event.flag)
        => (~event.marked /\ event.kind = "dropped")

LateRejectedWitness ==
    /\ event.kind = "dropped"
    /\ event.flag
    /\ ~ListingExists(store, event.id)

\* C8 as stated: no row with the identifier of a candidate dropped by the
\* re-filter is created anywhere in the same cycle.
LateRejectedIdNotCreatedInCycle ==
    cyc.rejected \cap cyc.created = {}

\* C9: in a cycle during which the mode is Off throughout, Submit is never
\* called and no contacted flag is set; and when that cycle ends with no
\* NotifyNewListing failure and no failure of the store calls of the
\* notification pass, every stored row is notified.
OffCycleOnlyNotifies ==
    /\ cyc.allOff => (~cyc.submitCalled /\ ~cyc.contactedSet)
    /\ (event.kind = "cycle_done" /\ cyc.allOff /\ ~cyc.notifyFailed
            /\ ~cyc.storeFailed)
        => \A i \in 1..Len(store) : store[i].Notified

OffCycleWitness ==
    /\ event.kind = "cycle_done"
    /\ cycles = 1
    /\ cyc.allOff
    /\ ~cyc.notifyFailed
    /\ ~cyc.storeFailed
    /\ Len(store) = 2
    /\ \A i \in 1..Len(store) : store[i].Notified /\ ~store[i].Contacted

\* C9 as stated: the Notifier succeeding is enough for every stored row to
\* be notified when an all-Off cycle ends.
OffCycleNotifiesGivenNotifier ==
    (event.kind = "cycle_done" /\ cyc.allOff /\ ~cyc.notifyFailed)
        => \A i \in 1..Len(store) : store[i].Notified

\* C10: when Submit fails, the candidate's contacted flag stays unset and
\* the candidate is again returned by GetUncontactedListings; the attempt
\* has status failed with the error text when it was recorded and its update
\* succeeded; the chat holds the contact-failed notification when
\* NotifyContactFailed succeeded.
SubmitFailureHandled ==
    event.kind = "submit_failed" =>
        /\ ListingExists(store, event.id)
        /\ ~Row(event.id).Contacted
        /\ InSeq(Row(event.id), GetUncontactedListings(store))
        /\ (event.att # 0 /\ event.updated) =>
               \E i \in 1..Len(sentMessages) :
                  /\ sentMessages[i].ID = event.att
                  /\ sentMessages[i].IS24ID = event.id
                  /\ sentMessages[i].Status = "failed"
                  /\ sentMessages[i].ErrorMsg # ""
        /\ event.delivered => chat = <<"contact_failed", event.id>>

SubmitFailureWitness ==
    /\ event.kind = "submit_failed"
    /\ event.att # 0
    /\ event.updated
    /\ event.delivered
    /\ chat = <<"contact_failed", event.id>>
    /\ \E i \in 1..Len(sentMessages) : sentMessages[i].Status = "failed"

\* C10 as stated: whenever Submit fails, an attempt with status failed and
\* the error text exists and the chat holds the contact-failed notification.
SubmitFailureAlwaysRecorded ==
    event.kind = "submit_failed" =>
        /\ \E i \in 1..Len(sentMessages) :
              /\ sentMessages[i].IS24ID = event.id
              /\ sentMessages[i].Status = "failed"
              /\ sentMessages[i].ErrorMsg # ""
        /\ chat = <<"contact_failed", event.id>>

\* C11: while the mode is Preview the Submitter is never called; a
\* candidate whose preview notification succeeded is marked contacted; and
\* no candidate is previewed when its row is contacted already.
PreviewNeverSubmitsAndMarks ==
    /\ event.kind \in {"submit_ok", "submit_failed"} => event.mode # "test"
    /\ (event.kind = "preview" /\ event.delivered) => Row(event.id).Contacted
    /\ event.kind = "preview" => ~event.flag

\* A row's notified flag is set only by the step in which NotifyNewListing
\* succeeded for that row.
NotifiedOnlyAfterDelivery ==
    \A i \in 1..Len(store') :
        (store'[i].Notified /\ (i > Len(store) \/ ~store[i].Notified))
            => /\ event'.kind = "notify"
               /\ event'.delivered
               /\ event'.id = store'[i].IS24ID

\* While unnotified candidates remain in the pass the pass goes on with the
\* next of them, whatever the last one's outcome was.
NotifyPassContinues ==
    (pc = "notify" /\ Len(queue) > 1)
        => (pc' = "notify" /\ queue' \in {queue, Tail(queue)})

\* A cycle that has processed its profiles runs the notification pass next,
\* in every mode, and no action pass begins before it.
NotifyPassAlwaysRuns ==
    /\ (pc = "profiles" /\ profiles = <<>> /\ pc' # pc)
           => event'.kind = "notify_begin"
    /\ (pc' \in {"notify", "gate_contact"} /\ pc \notin {"notify", "gate_contact"})
           => event'.kind = "notify_begin"

\* A candidate for which NotifyNewListing failed is unnotified after the step.
FailedNotifyLeavesUnnotified ==
    (event.kind = "notify" /\ ~event.delivered) => ~Row(event.id).Notified

\* C12: a notified flag is set only after NotifyNewListing succeeded for the
\* candidate in that cycle; a candidate for which it failed stays unnotified
\* and the remaining candidates of the pass are still processed; the pass
\* runs in every cycle that got past the quiet-hours gate and the profile
\* load, whatever the mode is.
NotifyPassSound ==
    /\ []FailedNotifyLeavesUnnotified
    /\ [][NotifiedOnlyAfterDelivery /\ NotifyPassContinues
            /\ NotifyPassAlwaysRuns]_vars

NotifyFailureWitness ==
    /\ event.kind = "notify"
    /\ ~event.delivered
    /\ contactMode = "on"
    /\ pc = "notify"
    /\ ~Row(event.id).Notified

\* The notification pass offers candidate i to the Notifier, and the
\* Notifier delivers it.
Offered(i) == pc = "notify" /\ Head(queue).IS24ID = i

Delivered(i) == event.kind = "notify" /\ event.id = i /\ event.delivered

\* Cycles keep being executed: again and again one gets past the quiet gate
\* and loads the profile list.
CyclesRun == []<>(event.kind = "poll_begin")

\* The Notifier does not fail forever for candidate i.
NotifierRecovers(i) == []<>Offered(i) => []<>Delivered(i)

\* The store does not fail forever either: GetUnnotifiedListings succeeds
\* again and again, and so does MarkListingNotified for i.
StoreRecovers(i) ==
    /\ CyclesRun => []<>(event.kind = "notify_begin" /\ ~event.flag)
    /\ []<>Delivered(i) => []<>(Delivered(i) /\ event.marked)

EventuallyNotified(i) ==
    [](ListingExists(store, i) => <>(ListingExists(store, i) /\ Row(i).Notified))

\* C13: if cycles keep being executed, the Notifier does not fail forever
\* for a candidate, and the store calls of the notification pass do not fail
\* forever, every persisted candidate is eventually marked notified.
PersistedEventuallyNotified ==
    \A i \in Ids :
        (CyclesRun /\ NotifierRecovers(i) /\ StoreRecovers(i))
            => EventuallyNotified(i)

\* C13 as stated: the Notifier's recovery alone is enough.
NotifierAloneSuffices ==
    \A i \in Ids :
        (CyclesRun /\ NotifierRecovers(i)) => EventuallyNotified(i)

\* A candidate persisted by an earlier cycle is offered again and this time
\* delivered and marked.
RetriedNotifyWitness ==
    /\ event.kind = "notify"
    /\ event.flag
    /\ event.marked
    /\ Row(event.id).Notified

\* The order of poll's passes: the profile loop searches the profiles one
\* after the other, then come the notification pass, the contact gate and
\* its pass, the test gate and its pass, and only then the cycle's end.
PassesInOrder ==
    /\ (pc = "profiles" /\ profiles # <<>> /\ <<pc, profiles>>' # <<pc, profiles>>)
        => /\ profiles' = Tail(profiles)
           /\ event'.kind \in {"searched", "search_failed"}
           /\ event'.id = Head(profiles).ID
           /\ pc' \in {"profiles", "listings"}
    /\ pc = "listings" => (pc' \in {"listings", "profiles"} /\ profiles' = profiles)
    /\ (pc = "profiles" /\ profiles = <<>> /\ pc' # pc)
        => (event'.kind = "notify_begin" /\ pc' \in {"notify", "gate_contact"})
    /\ pc = "notify" => pc' \in {"notify", "gate_contact"}
    /\ (pc = "gate_contact" /\ pc' # pc)
        => (event'.kind = "gate_contact" /\ pc' \in {"contact", "gate_test"})
    /\ pc \in {"contact", "submit"} => pc' \in {"contact", "submit", "gate_test"}
    /\ (pc = "gate_test" /\ pc' # pc)
        => (event'.kind = "gate_test" /\ pc' \in {"preview", "finish"})
    /\ pc = "preview" => pc' \in {"preview", "finish"}

\* The step in which a profile's search fails stays in the profile loop with
\* the other profiles still to search, and changes no row.
SearchFailureStaysInLoop ==
    (event'.kind = "search_failed" /\ profiles' # profiles)
        => /\ pc' = "profiles"
           /\ profiles' = Tail(profiles)
           /\ store' = store
           /\ cycles' = cycles

\* C14: a profile whose search returns an error never aborts the cycle:
\* the other active profiles are still searched, and the notification pass
\* and the two gates of the action passes still run before the cycle ends.
ProfileFailureContained ==
    [][PassesInOrder /\ SearchFailureStaysInLoop]_vars

\* The notification pass begins in a cycle in which a profile's search had
\* failed.
ProfileFailureWitness ==
    /\ event.kind = "notify_begin"
    /\ event.updated
    /\ pc = "notify"

\* now lies in the window [start, end), which wraps past midnight when
\* start > end.
InWindow(start, end, now) ==
    \/ start > end /\ (now >= start \/ now < end)
    \/ start <= end /\ start <= now /\ now < end

\* C15: with quiet hours enabled the cycle is skipped iff now lies in the
\* window [start, end), wrapping past midnight when start > end; with quiet
\* hours disabled no cycle is skipped.
QuietGateIsWindow ==
    quiet.done =>
        (quiet.skipped <=>
            (quiet.cfg.Enabled /\ InWindow(quiet.start, quiet.end, quiet.now)))

\* C15 as stated: the window alone decides.
QuietGateIsWindowAlone ==
    quiet.done => (quiet.skipped <=> InWindow(quiet.start, quiet.end, quiet.now))

\* Quiet hours from 22:00 to 07:00 are enabled and the cycle at 23:30 is
\* skipped.
QuietGateWitness ==
    /\ quiet.done
    /\ quiet.cfg.Enabled
    /\ quiet.start = 22 * 60
    /\ quiet.end = 7 * 60
    /\ quiet.now = 23 * 60 + 30
    /\ quiet.skipped

\* C16: a cycle invoked during quiet hours returns success and changes
\* nothing: it calls neither the store nor the source, the notifier, the
\* message generator or the contact submitter; rows, flags, sent messages and
\* the rate limiter's window are as before.
QuietCycleChangesNothing ==
    [][(event'.kind = "quiet_skip" /\ cycles' # cycles)
        => /\ pc' = "idle"
           /\ store' = store
           /\ sentMessages' = sentMessages
           /\ submitted' = submitted
           /\ contactMode' = contactMode
           /\ <<profiles, profile, queue, cur>>' = <<profiles, profile, queue, cur>>
           /\ chat' = NoMessage
           /\ ~event'.waited]_vars

\* A cycle is skipped while a stored row waits to be notified.
QuietCycleWitness ==
    /\ event.kind = "quiet_skip"
    /\ \E i \in DOMAIN store : ~store[i].Notified

\* Recorded requests whose time lies in the window (from, from + Minute].
InWindowFrom(from) ==
    {i \in DOMAIN records :
        from < records[i].time /\ records[i].time <= from + Minute}

\* No window of a minute holds more than MaxRequestsPerMinute requests.
WindowBound ==
    \A from \in (0 - Minute)..clock :
        Cardinality(InWindowFrom(from)) <= MaxRequestsPerMinute

\* The requests recorded before request j that were less than a minute old
\* when its call of Wait read the clock.
InWindowAtCall(j) ==
    {i \in 1..(j - 1) : records[i].time > records[j].called - Minute}

\* A call that finds MaxRequestsPerMinute requests in its window records
\* no earlier than a minute after the oldest of them.
LimitHolds ==
    \A j \in DOMAIN records :
        Cardinality(InWindowAtCall(j)) >= MaxRequestsPerMinute
            => \E i \in InWindowAtCall(j) :
                  /\ \A h \in InWindowAtCall(j) : records[i].time <= records[h].time
                  /\ records[j].time >= records[i].time + Minute

\* C17: after any calls of Wait no window of a minute contains more than
\* MaxRequestsPerMinute recorded request times, and a call that finds that
\* many in the current window does not record before the oldest of them is
\* a minute old.
RateLimitRespected ==
    WindowBound /\ LimitHolds

\* A call of Wait slept for the limit, recorded its request and returned.
LimitSleepWitness ==
    \E j \in DOMAIN records :
        /\ records[j].limited
        /\ records[j].returned
        /\ Cardinality(InWindowAtCall(j)) = MaxRequestsPerMinute

\* A goroutine inside Wait holds the mutex.
InsideHoldsMutex ==
    \A k \in CallerIds : callers[k].pc # "idle" => mu = k

\* Request times are recorded in non-decreasing order, which is the order
\* in which the calls return.
RecordedInOrder ==
    \A i, j \in DOMAIN records :
        i < j => /\ records[i].time <= records[j].time
                 /\ records[j].returned => records[i].returned

\* While a goroutine is inside Wait no other goroutine takes a step of Wait.
NoInterleaving ==
    \A k \in CallerIds :
        callers[k].pc # "idle" =>
            \A j \in CallerIds \ {k} : callers'[j] = callers[j]

\* C18: concurrent callers of Wait are serialized: trim, limit sleep, random
\* delay and record of one call happen in one critical section with no step
\* of another call in between, and the request times are recorded in
\* non-decreasing order, the order in which the calls return.
WaitSerialized ==
    /\ [](InsideHoldsMutex /\ RecordedInOrder)
    /\ [][NoInterleaving]_vars

\* Two goroutines have each completed a call of Wait.
TwoCallersWitness ==
    \E i, j \in DOMAIN records :
        /\ records[i].caller # records[j].caller
        /\ records[i].returned
        /\ records[j].returned

\* The failure codes in a verdict's reasons.
ReasonCodes(result) ==
    {result.Reasons[i].code : i \in DOMAIN result.Reasons}

\* c begins with the characters of p.
StartsWith(c, p) ==
    \E n \in 0..Len(c) : c = p \o SubSeq(c, n + 1, Len(c))

\* The criteria of profile p that listing l violates, each judged on its
\* own, by failure code; a criterion the listing has no value for is not
\* violated.
ViolatedCriteria(l, p) ==
    LET is(cond, code) == IF cond THEN {code} ELSE {}
    IN  is(l.Price # 0 /\ p.MinPrice > 0 /\ l.Price < p.MinPrice, "price_too_low")
        \cup is(l.Price # 0 /\ p.MaxPrice > 0 /\ l.Price > p.MaxPrice, "price_too_high")
        \cup is(l.Rooms # 0 /\ p.MinRooms > 0 /\ l.Rooms < p.MinRooms, "too_few_rooms")
        \cup is(l.Rooms # 0 /\ p.MaxRooms > 0 /\ l.Rooms > p.MaxRooms, "too_many_rooms")
        \cup is(l.Area # 0 /\ p.MinArea > 0 /\ l.Area < p.MinArea, "area_too_small")
        \cup is(l.Area # 0 /\ p.MaxArea > 0 /\ l.Area > p.MaxArea, "area_too_large")
        \cup is(p.City # <<>> /\ l.City # <<>> /\ ToLower(l.City) # ToLower(p.City),
                "wrong_city")
        \cup is(/\ p.Districts # <<>>
                /\ l.District # <<>>
                /\ \A i \in DOMAIN p.Districts :
                      ~Contains(ToLower(l.District), ToLower(p.Districts[i])),
                "wrong_district")
        \cup is(/\ p.PostalCodes # <<>>
                /\ l.PostalCode # <<>>
                /\ \A i \in DOMAIN p.PostalCodes :
                      ~StartsWith(l.PostalCode, p.PostalCodes[i]),
                "wrong_postal_code")
        \cup is(p.HasBalcony = "true" /\ ~l.HasBalcony, "no_balcony")
        \cup is(p.HasEBK = "true" /\ ~l.HasEBK, "no_ebk")
        \cup is(p.HasElevator = "true" /\ ~l.HasElevator, "no_elevator")
        \cup is(p.PetsAllowed = "true" /\ l.PetsAllowed = "false", "no_pets")
        \cup is(l.BuildYear # 0 /\ p.MinBuildYear > 0 /\ l.BuildYear < p.MinBuildYear,
                "building_too_old")
        \cup is(l.BuildYear # 0 /\ p.MaxBuildYear > 0 /\ l.BuildYear > p.MaxBuildYear,
                "building_too_new")

\* C19: the verdict's reasons contain a failure code for every criterion
\* the candidate violates, not only the first violation found.
FilterReasonsComplete ==
    match.done =>
        ViolatedCriteria(match.listing, match.profile)
            \subseteq ReasonCodes(match.result)

\* The city and district criteria of match.profile are not violated.
CityAndDistrictOk ==
    {"wrong_city", "wrong_district"}
        \cap ViolatedCriteria(match.listing, match.profile) = {}

\* Some postal-code entry of the profile equals the candidate's code or is
\* a prefix of it.
SomeEntryMatches ==
    \E i \in DOMAIN match.profile.PostalCodes :
        \/ match.listing.PostalCode = match.profile.PostalCodes[i]
        \/ StartsWith(match.listing.PostalCode, match.profile.PostalCodes[i])

\* C20: for a candidate that has a postal code and a profile that has
\* postal-code entries, the location check on postal code passes iff the
\* code equals an entry or starts with one, for at least one entry.
PostalCodeMatchesByPrefix ==
    (/\ match.done
     /\ match.listing.PostalCode # <<>>
     /\ match.profile.PostalCodes # <<>>)
        => /\ SomeEntryMatches
                => "wrong_postal_code" \notin ReasonCodes(match.result)
           /\ (~SomeEntryMatches /\ CityAndDistrictOk)
                => "wrong_postal_code" \in ReasonCodes(match.result)

\* A code that equals no entry and starts with one passes the check.
PostalPrefixWitness ==
    /\ match.done
    /\ match.listing.PostalCode = <<"1","0","1">>
    /\ match.profile.PostalCodes = << <<"1","0">> >>
    /\ match.profile.City # <<>>
    /\ match.listing.City # <<>>
    /\ "wrong_postal_code" \notin ReasonCodes(match.result)
    /\ CityAndDistrictOk

\* C21: a criterion the profile leaves unset never adds a rejection reason,
\* and a profile with every criterion unset passes every candidate with an
\* empty reason list.
UnsetCriteriaAddNoReason ==
    match.done =>
        LET p == match.profile
            codes == ReasonCodes(match.result)
        IN  /\ p.MinPrice = 0 => "price_too_low" \notin codes
            /\ p.MaxPrice = 0 => "price_too_high" \notin codes
            /\ p.MinRooms = 0 => "too_few_rooms" \notin codes
            /\ p.MaxRooms = 0 => "too_many_rooms" \notin codes
            /\ p.MinArea = 0 => "area_too_small" \notin codes
            /\ p.MaxArea = 0 => "area_too_large" \notin codes
            /\ p.City = <<>> => "wrong_city" \notin codes
            /\ p.Districts = <<>> => "wrong_district" \notin codes
            /\ p.PostalCodes = <<>> => "wrong_postal_code" \notin codes
            /\ p.HasBalcony = "nil" => "no_balcony" \notin codes
            /\ p.HasEBK = "nil" => "no_ebk" \notin codes
            /\ p.HasElevator = "nil" => "no_elevator" \notin codes
            /\ p.PetsAllowed = "nil" => "no_pets" \notin codes
            /\ p.MinBuildYear = 0 => "building_too_old" \notin codes
            /\ p.MaxBuildYear = 0 => "building_too_new" \notin codes
            /\ p.ExcludeKeywords = <<>> => "excluded_keyword:" \notin codes
            /\ p = EmptyProfile
                => match.result = [Passed |-> TRUE, Reasons |-> <<>>]

\* The profile that sets nothing has passed a listing in another city, at
\* a price, without balcony.
UnsetProfileWitness ==
    /\ match.done
    /\ match.profile = EmptyProfile
    /\ match.listing.City = Bonn
    /\ match.listing.Price = 1600
    /\ ~match.listing.HasBalcony
    /\ match.result.Passed

\* C22: when the candidate has no value for a criterion (price, rooms, area
\* or build year 0, empty city, district or postal code, unknown pets
\* status), the matcher passes that criterion whatever the profile sets.
MissingDataPasses ==
    match.done =>
        LET l == match.listing
            codes == ReasonCodes(match.result)
        IN  /\ l.Price = 0 => codes \cap {"price_too_low", "price_too_high"} = {}
            /\ l.Rooms = 0 => codes \cap {"too_few_rooms", "too_many_rooms"} = {}
            /\ l.Area = 0 => codes \cap {"area_too_small", "area_too_large"} = {}
            /\ l.BuildYear = 0
                => codes \cap {"building_too_old", "building_too_new"} = {}
            /\ l.City = <<>> => "wrong_city" \notin codes
            /\ l.District = <<>> => "wrong_district" \notin codes
            /\ l.PostalCode = <<>> => "wrong_postal_code" \notin codes
            /\ l.PetsAllowed = "nil" => "no_pets" \notin codes

\* A listing without price, room count, build year and pets status has
\* passed a profile that bounds all of them and requires pets.
MissingDataWitness ==
    /\ match.done
    /\ match.listing.Price = 0
    /\ match.listing.Rooms = 0
    /\ match.listing.BuildYear = 0
    /\ match.listing.PetsAllowed = "nil"
    /\ match.profile.MinPrice = 1600
    /\ match.profile.MinRooms = 2
    /\ match.profile.MinBuildYear = 2000
    /\ match.profile.PetsAllowed = "true"
    /\ ReasonCodes(match.result) \subseteq {"area_too_small", "area_too_large",
                                            "no_ebk", "excluded_keyword:"}

\* The title and description of l contain one of p's exclusion keywords,
\* whatever the case of the letters.
KeywordViolated(l, p) ==
    \E i \in DOMAIN p.ExcludeKeywords :
        Contains(ToLower(l.Title \o <<" ">> \o l.Description),
                 ToLower(p.ExcludeKeywords[i]))

\* The profile and the candidate of the price scenario.
ScenarioProfile ==
    [EmptyProfile EXCEPT !.ID = 1, !.City = Berlin, !.MaxPrice = 1500,
                         !.MinRooms = 2]

ScenarioListing == [ParsedListing(1, 1600) EXCEPT !.Rooms = 2]

\* C23: the candidate of the price scenario gets passed = false with
\* reasons exactly [price_too_high]; no reason is reported for a criterion
\* that is satisfied; a price equal to the maximum passes.
PriceScenarioExact ==
    match.done =>
        LET l == match.listing
            p == match.profile
            codes == ReasonCodes(match.result)
        IN  /\ (l = ScenarioListing /\ p = ScenarioProfile)
                => match.result = [Passed |-> FALSE,
                                   Reasons |-> <<Reason("price_too_high")>>]
            /\ codes \ {"excluded_keyword:"} \subseteq ViolatedCriteria(l, p)
            /\ "excluded_keyword:" \in codes => KeywordViolated(l, p)
            /\ match.result.Passed <=> match.result.Reasons = <<>>
            /\ (p.MaxPrice > 0 /\ l.Price = p.MaxPrice)
                => "price_too_high" \notin codes

\* The price scenario has been evaluated.
PriceScenarioWitness ==
    /\ match.done
    /\ match.listing = ScenarioListing
    /\ match.profile = ScenarioProfile
    /\ ~match.result.Passed

\* C24: an amenity the profile sets to true rejects a candidate lacking it;
\* an amenity set to false or unset never rejects; a profile requiring pets
\* rejects only a candidate that states pets are not allowed and passes one
\* whose pets status is unknown.
AmenitiesOneDirectional ==
    match.done =>
        LET l == match.listing
            p == match.profile
            codes == ReasonCodes(match.result)
        IN  /\ (p.HasBalcony = "true" /\ ~l.HasBalcony) => ~match.result.Passed
            /\ (p.HasEBK = "true" /\ ~l.HasEBK) => ~match.result.Passed
            /\ (p.HasElevator = "true" /\ ~l.HasElevator) => ~match.result.Passed
            /\ p.HasBalcony # "true" => "no_balcony" \notin codes
            /\ p.HasEBK # "true" => "no_ebk" \notin codes
            /\ p.HasElevator # "true" => "no_elevator" \notin codes
            /\ p.PetsAllowed # "true" => "no_pets" \notin codes
            /\ (p.PetsAllowed = "true" /\ l.PetsAllowed = "false")
                => ~match.result.Passed
            /\ "no_pets" \in codes => l.PetsAllowed = "false"
            /\ codes \cap {"no_balcony", "no_ebk", "no_elevator", "no_pets"} # {}
                => \/ p.HasBalcony = "true" /\ ~l.HasBalcony
                   \/ p.HasEBK = "true" /\ ~l.HasEBK
                   \/ p.HasElevator = "true" /\ ~l.HasElevator
                   \/ p.PetsAllowed = "true" /\ l.PetsAllowed = "false"

\* A profile that requires pets has passed a listing whose pets status is
\* unknown.
PetsUnknownWitness ==
    /\ match.done
    /\ match.profile.PetsAllowed = "true"
    /\ match.listing.PetsAllowed = "nil"
    /\ match.result.Passed

\* The second evaluation of a pair returns the verdict of the first.
SameVerdictTwice ==
    match.redone => match.second = match.result

\* No step changes the listing or the profile Filter was called with.
ArgumentsUnchanged ==
    /\ match'.listing = match.listing
    /\ match'.profile = match.profile

OneModeAtATime ==
    /\ contactMode \in Modes
    /\ ~(IsAutoContactEnabled(contactMode) /\ IsTestModeEnabled(contactMode))

\* Only a command changes the mode: such a step is no step of the cycle.
OnlyCommandsChangeMode ==
    contactMode' # contactMode
        => UNCHANGED <<store, sentMessages, pc, profiles, profile, queue, cur,
                       chat, cycles, submitted, event>>

\* A pass over the uncontacted listings begins only at its gate, with the
\* mode On for the contact pass and Preview for the preview pass.
PassNeedsMode ==
    /\ (pc # "contact" /\ pc' = "contact")
        => pc \in {"gate_contact", "submit"}
    /\ (pc # "submit" /\ pc' = "submit") => pc = "contact"
    /\ (pc = "gate_contact" /\ pc' = "contact") => contactMode = "on"
    /\ (pc # "preview" /\ pc' = "preview")
        => (pc = "gate_test" /\ contactMode = "test")

\* C26: the mode is Off at startup and exactly one of Off, Preview, On at
\* every instant, the queries 'is On' and 'is Preview' are never both true,
\* and as only a command changes the mode and a pass begins only with the
\* mode On or Preview, no action pass runs when no command was received.
ModeIsOneOfThree ==
    /\ contactMode = "off"
    /\ []OneModeAtATime
    /\ [][OnlyCommandsChangeMode /\ PassNeedsMode]_vars

\* Both gates found the mode Off while a notified listing waited to be
\* contacted.
ModeOffWitness ==
    /\ event.kind = "gate_test"
    /\ event.mode = "off"
    /\ contactMode = "off"
    /\ \E i \in DOMAIN store : store[i].Notified /\ ~store[i].Contacted

\* With no SetContactMode in progress the mode is the one the last
\* completed SetContactMode was called with (Off when there was none).
LastSetWins ==
    controller.setter.pc = "idle" => contactMode = controller.committed

\* A query that has read the mode has read the mode of the latest completed
\* SetContactMode, and answers for that mode.
ReadsSeeLatestSet ==
    controller.reader.pc = "read" =>
        /\ controller.reader.got = controller.committed
        /\ controller.reader.query = "IsAutoContactEnabled"
            => (controller.reader.answer <=> controller.committed = "on")
        /\ controller.reader.query = "IsTestModeEnabled"
            => (controller.reader.answer <=> controller.committed = "test")

\* SetContactMode(b) returns with the mode equal to b, whatever it was.
SetLeavesItsMode ==
    (controller.setter.pc = "written" /\ controller'.setter.pc = "idle")
        => /\ contactMode' = controller.setter.mode
           /\ controller'.committed = controller.setter.mode

\* C27: any mode can follow any mode and the last write wins: set(b) in
\* mode a leaves the mode equal to b, and a read that starts after a set
\* has completed returns the value of the latest completed set, however the
\* command listener and the worker interleave.
ModeLastWriteWins ==
    /\ [](LastSetWins /\ ReadsSeeLatestSet)
    /\ [][SetLeavesItsMode]_vars

\* The mode was set to On while it was Preview, and a query then read On.
ModeChangeWitness ==
    /\ controller.previous = "test"
    /\ controller.committed = "on"
    /\ controller.reader.pc = "read"
    /\ controller.reader.query = "IsAutoContactEnabled"
    /\ controller.reader.answer

\* The step in which GetActiveSearchProfiles fails ends the cycle: no
\* search, no pass, no row changed, no request made; NotifyError is called
\* and the chat has the error message when the call succeeds.
ProfileLoadFailureEndsCycle ==
    (event'.kind = "poll_failed" /\ cycles' # cycles)
        => /\ pc' = "idle"
           /\ store' = store
           /\ sentMessages' = sentMessages
           /\ submitted' = submitted
           /\ <<profiles, profile, queue, cur>>' = <<profiles, profile, queue, cur>>
           /\ ~event'.waited
           /\ chat' = IF event'.delivered THEN <<"error", 0>> ELSE NoMessage

\* After the failed cycle the worker waits for the next tick, which starts
\* a cycle.
NextCycleAfterFailure ==
    (event.kind = "poll_failed" /\ cycles < MaxCycles) => ENABLED BeginPoll

\* C28: a failure to load the active profiles aborts only the current
\* cycle: that cycle makes no search and runs no notification or action
\* pass, the error is sent to the operator, and the next tick starts a new
\* cycle.
ProfileLoadFailureContained ==
    /\ []NextCycleAfterFailure
    /\ [][ProfileLoadFailureEndsCycle]_vars

\* The profile list failed to load while a stored row waited to be
\* notified, and the operator got the error.
ProfileLoadFailureWitness ==
    /\ event.kind = "poll_failed"
    /\ chat = <<"error", 0>>
    /\ \E i \in DOMAIN store : ~store[i].Notified

\* A call of Start that finds running set changes nothing of the scheduler.
StartWhileRunningChangesNothing ==
    (running /\ started' # started)
        => /\ started' = "running"
           /\ UNCHANGED <<running, stopCh, doneCh, closedStop, closedDone,
                          ctxDone, panicked, loops, stoppers>>

\* While running is set no step spawns a run goroutine or replaces a
\* channel.
NoSpawnWhileRunning ==
    running => /\ NumLoops' = NumLoops
               /\ stopCh' = stopCh
               /\ doneCh' = doneCh

\* C29: Start called while the scheduler is running is a no-op: no second
\* loop is spawned, and the running flag and the stop and done channels of
\* the existing loop stay as they are.
StartWhileRunningIsNoOp ==
    [][StartWhileRunningChangesNothing /\ NoSpawnWhileRunning]_vars

\* Start was called while the loop of an earlier Start was inside a cycle.
StartWhileRunningWitness ==
    /\ started = "running"
    /\ running
    /\ NumLoops = 1
    /\ loops[1].pc = "poll"
    /\ stopCh = 1
    /\ doneCh = 1

\* The first cycle of a run goroutine begins before its ticker exists.
FirstCycleBeforeAnyTick ==
    \A g \in LoopIds :
        (loops[g].pc = "spawned" /\ loops'[g].pc = "poll")
            => ~loops[g].ticker /\ ~loops[g].tick

\* Every later cycle begins by the receive of a tick from the ticker.
LaterCyclesBeginOnTick ==
    \A g \in LoopIds :
        (loops[g].pc \notin {"spawned", "poll"} /\ loops'[g].pc = "poll")
            => /\ loops[g].pc = "select"
               /\ loops[g].tick
               /\ ~loops'[g].tick

\* No tick begins a cycle while a cycle is in flight.
NoTickCycleMidCycle ==
    \A g \in LoopIds :
        (loops[g].pc = "select" /\ loops'[g].pc = "poll")
            => \A h \in LoopIds : loops[h].pc # "poll"

\* C30: after Start the first cycle begins at once, before any tick; every
\* later cycle begins on a tick; and a tick that falls due during a cycle
\* begins the next cycle only after that cycle has finished.
CyclesBeginInTurn ==
    [][FirstCycleBeforeAnyTick /\ LaterCyclesBeginOnTick
         /\ NoTickCycleMidCycle]_vars

\* C31: after a successful Submit the candidate is marked contacted and its
\* attempt is set to sent: an attempt with status sent belongs to a
\* candidate whose contacted flag is set.
SentAttemptImpliesContacted ==
    \A i \in 1..Len(sentMessages) :
        sentMessages[i].Status = "sent"
            => \E j \in 1..Len(store) :
                  /\ store[j].ID = sentMessages[i].ListingID
                  /\ store[j].Contacted

\* The step is a call of Submit.
SubmitStep ==
    /\ pc = "submit"
    /\ pc' # "submit"
    /\ event'.kind \in {"submit_ok", "submit_failed"}

\* The attempt of the candidate Submit is called for, before and after the
\* call.
PendingAttemptBefore ==
    \E i \in 1..Len(sentMessages) :
        /\ sentMessages[i].IS24ID = event'.id
        /\ sentMessages[i].ListingID = cur.listing.ID
        /\ sentMessages[i].Status = "pending"

AttemptSettledAfter ==
    \E i \in 1..Len(sentMessages') :
        /\ sentMessages'[i].IS24ID = event'.id
        /\ sentMessages'[i].Status =
              IF event'.kind = "submit_ok" THEN "sent" ELSE "failed"

DetailStep ==
    /\ pc = "listings"
    /\ queue' = Tail(queue)
    /\ event'.kind \in {"saved", "save_failed", "dropped"}

\* The row the step inserted.
InsertedRow == store'[Len(store')]

\* C33: when the detail fetch fails the candidate is not dropped: the basic
\* record is filtered again, passes, and is handed to CreateListing, whose
\* row has the same identifier, the same profile and the search-result
\* data.  When the fetch succeeds the inserted row carries the profile whose
\* search produced the candidate.  A step in which CreateListing returns an
\* error stores nothing.
BasicRecordKeptOnFetchFailure ==
    [][DetailStep =>
          LET l == Head(queue) IN
          /\ event'.id = l.IS24ID
          /\ l.SearchProfileID = profile.ID
          /\ ~event'.fetched =>
                /\ Filter(l, profile).Passed
                /\ event'.kind \in {"saved", "save_failed"}
                /\ event'.kind = "saved" =>
                      /\ event'.marked
                      /\ InsertedRow = [l EXCEPT !.ID = Len(store')]
          /\ event'.marked =>
                /\ event'.kind = "saved"
                /\ Len(store') = Len(store) + 1
                /\ InsertedRow.IS24ID = l.IS24ID
                /\ InsertedRow.SearchProfileID = profile.ID
          /\ event'.kind # "saved" => store' = store
      ]_vars

\* A row holds the search-result data (no price) of a candidate whose detail
\* fetch failed, with the profile that found it.
BasicRecordWitness ==
    /\ event.kind = "saved"
    /\ ~event.fetched
    /\ event.marked
    /\ \E i \in 1..Len(store) :
          /\ store[i].IS24ID = event.id
          /\ store[i].Price = 0
          /\ store[i].SearchProfileID \in {1, 2}

\* One iteration of sendContacts up to Submit: either Generate failed and the
\* candidate is skipped, or the message (enhanced, or the generated text
\* when Enhance failed) is handed to CreateSentMessage and Submit comes next.
ContactPrepareStep ==
    /\ pc = "contact"
    /\ event'.kind # "gate_contact"
    /\ (pc' # pc \/ queue' # queue)

PreviewStep ==
    /\ pc = "preview"
    /\ queue' = Tail(queue)

UnenhancedTextUsed ==
    /\ ContactPrepareStep =>
          /\ event'.kind \in {"generate_failed", "prepared"}
          /\ event'.id = Head(queue).IS24ID
          /\ event'.kind = "prepared" =>
                /\ event'.text \in ComposedMessages
                /\ pc' = "submit"
                /\ cur'.listing = Head(queue)
                /\ cur'.message = event'.text
                /\ event'.att # 0 =>
                      \E i \in 1..Len(sentMessages') :
                          /\ sentMessages'[i].ID = event'.att
                          /\ sentMessages'[i].IS24ID = event'.id
                          /\ sentMessages'[i].Message = event'.text
                          /\ sentMessages'[i].Status = "pending"
    /\ SubmitStep =>
          /\ event'.id = cur.listing.IS24ID
          /\ event'.text = cur.message
    /\ PreviewStep =>
          /\ event'.kind \in {"generate_failed", "preview"}
          /\ event'.id = Head(queue).IS24ID
          /\ event'.kind = "preview" =>
                /\ event'.text \in ComposedMessages
                /\ event'.delivered => chat' = <<"preview", event'.id>>

\* A candidate whose Generate failed is skipped: no attempt, no Submit, no
\* preview, no flag changed.
ComposerFailureSkips ==
    ((ContactPrepareStep \/ PreviewStep) /\ event'.kind = "generate_failed")
        => /\ store' = store
           /\ submitted' = submitted
           /\ sentMessages' = <<>>
           /\ chat' = NoMessage
           /\ cur' = cur
           /\ queue' = Tail(queue)
           /\ pc' # "submit"

\* C34: when the Enhancer fails the action pass goes on with the unenhanced
\* text: the attempt is recorded and the submission or the preview is made
\* with that text; when the Composer fails the candidate is skipped, with no
\* attempt recorded, no submission made and its contacted flag unchanged.
EnhancerFailureFallsBack ==
    [][UnenhancedTextUsed /\ ComposerFailureSkips]_vars

\* Submit succeeded with the unenhanced text, and the recorded attempt
\* holds that text.
UnenhancedSubmitWitness ==
    /\ event.kind = "submit_ok"
    /\ event.text = "base"
    /\ event.att # 0
    /\ \E i \in 1..Len(sentMessages) :
          /\ sentMessages[i].ID = event.att
          /\ sentMessages[i].Message = "base"

\* The title and the description of l, joined by a space as the matcher
\* joins them.
JoinedText(l) == l.Title \o <<" ">> \o l.Description

\* Some substring of text equals keyword when the case of the letters is
\* ignored.
OccursFolded(text, keyword) ==
    \E i \in 0..(Len(text) - Len(keyword)) :
        EqualFold(SubSeq(text, i + 1, i + Len(keyword)), keyword)

KeywordReasons(result) ==
    SelectSeq(result.Reasons, LAMBDA r : r.code = "excluded_keyword:")

\* C35: a candidate is rejected for its keywords iff some exclusion keyword
\* of the profile occurs, the case of the letters ignored, in its title and
\* description joined together; the reason names the first keyword of the
\* profile's list that occurs.
KeywordExclusionExact ==
    match.done =>
        LET l == match.listing
            kw == match.profile.ExcludeKeywords
            hit(i) == OccursFolded(JoinedText(l), kw[i])
            reasons == KeywordReasons(match.result)
        IN  /\ (reasons # <<>>) <=> (\E i \in DOMAIN kw : hit(i))
            /\ Len(reasons) <= 1
            /\ reasons # <<>> =>
                  /\ ~match.result.Passed
                  /\ \E i \in DOMAIN kw :
                        /\ hit(i)
                        /\ \A j \in 1..(i - 1) : ~hit(j)
                        /\ reasons[1].arg = kw[i]

\* A candidate whose description holds, in capitals, the third keyword of
\* the list and none before it was rejected for that keyword.
KeywordThirdWitness ==
    /\ match.done
    /\ match.listing.Title = <<>>
    /\ match.listing.Description = FlatUpper
    /\ match.profile.ExcludeKeywords = <<Bonn, ToLower(Nice), FlatUpper>>
    /\ KeywordReasons(match.result)
          = << [code |-> "excluded_keyword:", arg |-> FlatUpper] >>

\* The district of l equals a district of p's list, or holds it as a
\* substring, the case of the letters ignored.
DistrictListed(l, p) ==
    \E i \in DOMAIN p.Districts :
        \/ EqualFold(l.District, p.Districts[i])
        \/ OccursFolded(l.District, p.Districts[i])

\* C36: when profile and candidate both give a city the candidate passes
\* the city check iff the two are equal ignoring case; when the profile
\* lists districts and the candidate has a district it passes the district
\* check iff its district equals a listed district ignoring case or
\* contains one as a case-insensitive substring.
CityAndDistrictMatch ==
    match.done =>
        LET l == match.listing
            p == match.profile
            codes == ReasonCodes(match.result)
            bothCity == p.City # <<>> /\ l.City # <<>>
            bothDistrict == p.Districts # <<>> /\ l.District # <<>>
        IN  /\ bothCity =>
                  ("wrong_city" \notin codes <=> EqualFold(l.City, p.City))
            /\ ~bothCity => "wrong_city" \notin codes
            /\ bothDistrict =>
                  /\ DistrictListed(l, p) => "wrong_district" \notin codes
                  /\ ~DistrictListed(l, p) =>
                        /\ ~match.result.Passed
                        /\ "wrong_city" \in codes \/ "wrong_district" \in codes
                        /\ "wrong_district" \in codes <=> "wrong_city" \notin codes
            /\ ~bothDistrict => "wrong_district" \notin codes

\* A candidate in BERLIN, district Berlin-mitte, passed the city and the
\* district check of a profile for Berlin that lists Mitte.
DistrictSubstringWitness ==
    /\ match.done
    /\ match.listing.City = BerlinUpper
    /\ match.listing.District = BerlinMitte
    /\ match.profile.City = Berlin
    /\ match.profile.Districts = <<Mitte>>
    /\ match.result.Passed

\* The step is poll's second gate finding the mode Preview: the preview
\* pass runs.
PreviewPassBegins ==
    /\ pc = "gate_test"
    /\ event'.kind = "gate_test"
    /\ TestModeGate(event'.mode)

\* The submit pass of the cycle in flight did not run: the step before the
\* second gate was the first gate, and it found the mode not On.
SubmitPassSkipped ==
    /\ event.kind = "gate_contact"
    /\ ~AutoContactGate(event.mode)

\* C37: in one poll cycle at most one of the two action passes runs: when
\* the preview pass runs the submit pass of that cycle did not, whatever
\* SetContactMode calls are made during the cycle.
AtMostOnePassPerCycle ==
    [][PreviewPassBegins => SubmitPassSkipped]_vars

\* Rows whose contacted flag was set although no Submit succeeded for them:
\* the preview pass marked them.
MarkedByPreview ==
    {store[i].IS24ID : i \in {j \in 1..Len(store) :
                                 /\ store[j].Contacted
                                 /\ store[j].IS24ID \notin submitted}}

\* The preview pass sets the contacted flag of the candidate whose preview
\* was delivered.
PreviewMarks ==
    (PreviewStep /\ event'.kind = "preview" /\ event'.marked)
        => \E i \in 1..Len(store') :
              /\ store'[i].IS24ID = event'.id
              /\ store'[i].Contacted

\* A contacted flag that is set stays set.
ContactedStays ==
    \A i \in 1..Len(store) :
        store[i].Contacted =>
            /\ i <= Len(store')
            /\ store'[i].IS24ID = store[i].IS24ID
            /\ store'[i].Contacted

\* The submit pass works on uncontacted candidates only.
SubmitPassSkipsContacted ==
    pc \in {"contact", "submit"} =>
        /\ \A i \in 1..Len(queue) : ~Row(queue[i].IS24ID).Contacted
        /\ pc = "submit" => ~Row(cur.listing.IS24ID).Contacted

\* C38: a candidate marked contacted by the preview pass is never handed to
\* Submit afterwards, whatever mode changes and cycles follow: its flag
\* stays set, the submit pass selects candidates whose flag is unset, and
\* no Submit call is made for a candidate whose flag is set.
PreviewedNeverSubmitted ==
    /\ []SubmitPassSkipsContacted
    /\ [][/\ PreviewMarks
          /\ ContactedStays
          /\ SubmitStep => ~Row(event'.id).Contacted
         ]_vars

\* In a later cycle, with the mode On, Submit succeeded for one candidate
\* while the other, marked by an earlier preview pass, was left alone.
PreviewedSkippedWitness ==
    /\ event.kind = "submit_ok"
    /\ event.mode = "on"
    /\ cycles = MaxCycles
    /\ MarkedByPreview # {}
    /\ event.id \notin MarkedByPreview

\* No run goroutine exists: none was started, or each has returned.
NoLoopAlive == \A g \in LoopIds : loops[g].pc \in {"none", "exited"}

\* C39: the running flag agrees with the loop's liveness: whenever no run
\* loop is alive, because it exited on Stop or on the cancellation of the
\* context, running is false, so that a later Start starts a new loop.
RunningOnlyWhileLoopAlive ==
    NoLoopAlive => ~running

\* C40: for every configured maximum from 0 on and every window, each call
\* of Wait returns normally, having released the lock and appended one
\* request time: no call panics on the oldest entry of an empty window.
WaitAlwaysReturns ==
    /\ ~WaitPanicked
    /\ \A k \in CallerIds : callers[k].pc = "idle" => mu # k
====
